---- MODULE Spec2Model ----
(***************************************************************************)
(* A model of the Video_Analyser repository:                               *)
(*   - video_analyser/batch_processor.py  BatchProcessor.process_files     *)
(*   - video_analyser/analyzer.py         VideoAnalyzer (package)          *)
(*   - video_analyzer.py                  VideoAnalyzer (script): the      *)
(*                                        duplicate, per-second, outlier,  *)
(*                                        jitter and continuity passes     *)
(*   - batch_analyze.py                   calculate_overall_score,         *)
(*                                        analyze_video and main           *)
(* Real-valued quantities are exact rationals scaled to integers; the      *)
(* sum of the sub-scores is computed in binary64, with its rounding.       *)
(***************************************************************************)
EXTENDS Integers, Sequences, FiniteSets, TLC

VARIABLES
    \* ---- BatchProcessor.process_files ----
    files,          \* the list of file paths handed to process_files
    fileKind,       \* per task: what analysing that file does
    max_workers,    \* BatchProcessor.max_workers
    hasCallback,    \* whether a progress_callback was supplied
    pc,             \* position of the caller's thread in process_files
    future_to_file, \* future (task index) -> file path
    taskState,      \* state of each future
    taskResult,     \* the value a finished future holds
    taskAnalyzer,   \* the analyzer instance each started task runs on
    capOf,          \* the decoding handle each running task holds (0: none)
    nextHandle,     \* allocator of decoding handles
    releasedCaps,   \* handles that have been released
    analyzerCfg,    \* the fields of BatchProcessor.analyzer
    yieldOrder,     \* the futures as_completed has handed to the loop, in order
    completed,      \* the loop's counter
    results,        \* the list process_files returns
    errorLog,       \* records written by logger.error
    callbackCalls,  \* the invocations of progress_callback, in order
    \* ---- VideoAnalyzer._analyze_duplicate_frames (video_analyzer.py) ----
    video,          \* the frames the capture delivers (grayscale buffers)
    sample_rate,    \* the stride
    diff_threshold, \* duplicate_threshold, in thousandths
    ssim_threshold, \* in thousandths
    dpc,            \* position in the pass: "idle", "walk" or "done"
    frame_number,
    analyzed_count,
    prev_frame,     \* the previous sampled frame (<< >>: None)
    duplicate_count,
    near_duplicate_count,
    duplicate_frames,
    compared,       \* the frame pairs compared so far and what each counted as
    dupResult,      \* the dictionary the pass returns
    \* ---- VideoAnalyzer._calculate_motion (video_analyser/analyzer.py) ----
    prev_gray,      \* the two buffers of one call
    curr_gray,
    mpc,            \* "idle", "call" or "done"
    motion_score,   \* the returned mean, as the fraction <<sum, count>>
    \* ---- calculate_overall_score (batch_analyze.py) ----
    fps_stats,      \* fps['overall_stats']: mean_fps, std_fps (thousandths)
    pts_data,       \* motion['effective_fps_pts_jitter']
    dup_data,       \* motion['duplicate_frame_ratio']
    motion_data,    \* motion['motion_continuity']
    wobble_data,    \* motion['wobble_distortion']
    resolution,     \* basic['resolution']
    spc,            \* "idle", "call" or "done"
    scores,         \* the returned dictionary, scores in hundredths
    \* ---- analyze_fps_dynamics / analyze_frame_dynamics (video_analyzer.py) ----
    pass_name,      \* which of the two passes runs
    declared_fps,   \* cap.get(CAP_PROP_FPS), the fraction <<num, den>>
    total_frame_count,  \* int(cap.get(CAP_PROP_FRAME_COUNT))
    stride,         \* sample_rate of analyze_frame_dynamics
    frame_idx,      \* frame_number of the read loop
    frames_per_second,  \* the defaultdict second -> number of frames
    frame_data,     \* the per-frame records appended by the loop
    ppc,            \* "idle", "loop", "done" or "raised"
    pass_result,    \* the returned dictionary, or the exception raised
    \* ---- print_fps_dynamics, the outlier report (video_analyzer.py) ----
    fps_array,      \* the FPS values of the complete seconds of the result
    opc,            \* "idle", "call" or "done"
    outlier_report, \* what the report prints about outliers
    \* ---- analyze_motion_quality: the jitter and continuity passes ----
    video_pts,      \* the presentation timestamps (ms) of the video's frames
    mq_fps,         \* declared_fps, frames per second
    mq_stride,      \* sample_rate of analyze_motion_quality
    qpc,            \* "idle", "jitter", "continuity" or "done"
    grab_idx,       \* frame_number of the jitter loop
    pts_list,       \* timestamps (ms) collected by the jitter loop
    frame_times,    \* the inter-frame deltas (ms)
    pts_result,     \* the dictionary _analyze_pts_jitter returns
    read_idx,       \* frame_number of the continuity loop
    has_prev_gray,  \* prev_gray is not None
    motion_magnitudes,
    jerk_values,
    continuity_result,  \* the dictionary _analyze_motion_continuity returns
    \* ---- main (batch_analyze.py) ----
    video_files,    \* the sorted list of the files found, with what ails each
    file_i,         \* how many files the loop has been through
    main_results,   \* results
    success_count,
    error_count,
    main_pc,         \* "idle", "loop", "report" or "returned"
    \* ---- VideoAnalyzer._calculate_quality_scores (video_analyser/analyzer.py) ----
    qs_result,      \* the VideoAnalysisResult: counts, rates and the quality scores
    qs_pc,           \* "idle", "call" or "done"
    \* ---- _analyze_wobble_distortion: the grid of one motion field (video_analyzer.py) ----
    flow_h,         \* h, w = flow.shape[:2]
    flow_w,
    block_i,        \* i and j of the two loops over the grid
    block_j,
    block_variances,\* one entry per block: its rectangle and its score
    wpc,             \* "idle", "grid" or "done"
    \* ---- the entry points that open a capture: VideoAnalyzer.analyze (package), analyze_fps_dynamics, analyze_frame_dynamics, analyze_motion_quality (script) ----
    entry_point,    \* which entry point is called
    source_kind,    \* the file: "ok", "missing" or "unopenable"
    stream_pts,     \* CAP_PROP_POS_MSEC after each frame the capture delivers
    cap_fps,        \* cap.get(CAP_PROP_FPS)
    cap_frame_count,\* int(cap.get(CAP_PROP_FRAME_COUNT))
    cap_state,      \* the handle: "none", "open" or "released"
    cap_releases,   \* how many times cap.release() ran
    cap_pos,        \* the index of the next frame the handle delivers
    epc,            \* "idle", "call", "walk", "returned" or "raised"
    pass_no,        \* the pass of analyze_motion_quality that is reading
    pass_starts,    \* where the handle stood, and its state, when each pass began
    an_frame_times, \* frame_times of _analyze_frames (ms)
    an_found,       \* lengths of duplicate_frames, motion_discontinuities, wobble_frames
    ep_outcome,      \* what the call returned or raised
    \* ---- the jerk statistics of _analyze_motion_continuity in numpy arithmetic ----
    sk_magnitudes,  \* motion_magnitudes at the end of the walk
    sk_bits,        \* significand bits of the numpy type of the jerk values
    sk_jerks,       \* jerk_values
    sk_peaks,       \* jerk_peaks, or "none" before line 1339
    sk_pc           \* "idle", "call" or "done"

batchVars == <<files, fileKind, max_workers, hasCallback, pc, future_to_file,
               taskState, taskResult, taskAnalyzer, capOf, nextHandle,
               releasedCaps, analyzerCfg, yieldOrder, completed, results,
               errorLog, callbackCalls>>

dupVars == <<video, sample_rate, diff_threshold, ssim_threshold, dpc,
             frame_number, analyzed_count, prev_frame, duplicate_count,
             near_duplicate_count, duplicate_frames, compared, dupResult>>

pairVars == <<prev_gray, curr_gray, mpc, motion_score>>

scoreVars == <<fps_stats, pts_data, dup_data, motion_data, wobble_data,
               resolution, spc, scores>>

passVars == <<pass_name, declared_fps, total_frame_count, stride, frame_idx,
              frames_per_second, frame_data, ppc, pass_result>>

outlierVars == <<fps_array, opc, outlier_report>>

qualityVars == <<video_pts, mq_fps, mq_stride, qpc, grab_idx, pts_list,
                 frame_times, pts_result, read_idx, has_prev_gray,
                 motion_magnitudes, jerk_values, continuity_result>>

mainVars == <<video_files, file_i, main_results, success_count, error_count,
              main_pc>>

scoresVars == <<qs_result, qs_pc>>

wobbleVars == <<flow_h, flow_w, block_i, block_j, block_variances, wpc>>

entryVars ==
    <<entry_point, source_kind, stream_pts, cap_fps,
    cap_frame_count, cap_state, cap_releases, cap_pos, epc,
    pass_no, pass_starts, an_frame_times, an_found, ep_outcome>>

spikeVars == <<sk_magnitudes, sk_bits, sk_jerks, sk_peaks, sk_pc>>

vars ==
    <<batchVars, dupVars, pairVars, scoreVars,
      passVars, outlierVars, qualityVars, mainVars,
      scoresVars, wobbleVars, entryVars, spikeVars>>
nonBatchVars ==
    <<dupVars, pairVars, scoreVars, passVars,
      outlierVars, qualityVars, mainVars, scoresVars,
      wobbleVars, entryVars, spikeVars>>
nonDupVars ==
    <<batchVars, pairVars, scoreVars, passVars,
      outlierVars, qualityVars, mainVars, scoresVars,
      wobbleVars, entryVars, spikeVars>>
nonPairVars ==
    <<batchVars, dupVars, scoreVars, passVars,
      outlierVars, qualityVars, mainVars, scoresVars,
      wobbleVars, entryVars, spikeVars>>
nonScoreVars ==
    <<batchVars, dupVars, pairVars, passVars,
      outlierVars, qualityVars, mainVars, scoresVars,
      wobbleVars, entryVars, spikeVars>>
nonPassVars ==
    <<batchVars, dupVars, pairVars, scoreVars,
      outlierVars, qualityVars, mainVars, scoresVars,
      wobbleVars, entryVars, spikeVars>>
nonOutlierVars ==
    <<batchVars, dupVars, pairVars, scoreVars,
      passVars, qualityVars, mainVars, scoresVars,
      wobbleVars, entryVars, spikeVars>>
nonQualityVars ==
    <<batchVars, dupVars, pairVars, scoreVars,
      passVars, outlierVars, mainVars, scoresVars,
      wobbleVars, entryVars, spikeVars>>
nonMainVars ==
    <<batchVars, dupVars, pairVars, scoreVars,
      passVars, outlierVars, qualityVars, scoresVars,
      wobbleVars, entryVars, spikeVars>>
nonScoresVars ==
    <<batchVars, dupVars, pairVars, scoreVars,
      passVars, outlierVars, qualityVars, mainVars,
      wobbleVars, entryVars, spikeVars>>
nonWobbleVars ==
    <<batchVars, dupVars, pairVars, scoreVars,
      passVars, outlierVars, qualityVars, mainVars,
      scoresVars, entryVars, spikeVars>>
nonEntryVars ==
    <<batchVars, dupVars, pairVars, scoreVars,
      passVars, outlierVars, qualityVars, mainVars,
      scoresVars, wobbleVars, spikeVars>>
nonSpikeVars ==
    <<batchVars, dupVars, pairVars, scoreVars,
      passVars, outlierVars, qualityVars, mainVars,
      scoresVars, wobbleVars, entryVars>>

(***************************************************************************)
(* Bounds                                                                  *)
(***************************************************************************)
MaxFiles == 3
MaxWorkers == 2
\* the longest batch of the runs checked for liveness
MaxFairFiles == 2

(***************************************************************************)
(* BatchProcessor                                                          *)
(***************************************************************************)
\* What analysing one file does: it succeeds, the path does not exist, the
\* container cannot be opened, the decode fails in mid-stream, or the decode
\* never returns.
FileKinds == {"ok", "missing", "corrupt", "midfail", "hang"}

\* The file lists: n distinct paths; path p of task i is n + 1 - i, so a
\* path never equals the position of its task in a list of two or more.
FileLists == {[i \in 1..n |-> n + 1 - i] : n \in 0..MaxFiles}

Tasks == 1..Len(files)

\* BatchProcessor.__init__: the one analyzer of the processor.
SelfAnalyzer == 1

DefaultAnalyzerCfg ==
    [duplicate_threshold |-> 980, motion_threshold |-> 300,
     wobble_threshold |-> 20, fps_drop_threshold |-> 800]

InitBatch ==
    /\ files \in FileLists
    /\ fileKind \in [1..Len(files) -> FileKinds]
    /\ max_workers \in 1..MaxWorkers
    /\ hasCallback \in BOOLEAN
    /\ pc = "start"
    /\ future_to_file = << >>
    /\ taskState = [i \in 1..Len(files) |-> "unsubmitted"]
    /\ taskResult = [i \in 1..Len(files) |-> [kind |-> "none"]]
    /\ taskAnalyzer = [i \in 1..Len(files) |-> 0]
    /\ capOf = [i \in 1..Len(files) |-> 0]
    /\ nextHandle = 1
    /\ releasedCaps = {}
    /\ analyzerCfg = DefaultAnalyzerCfg
    /\ yieldOrder = << >>
    /\ completed = 0
    /\ results = << >>
    /\ errorLog = << >>
    /\ callbackCalls = << >>

\* The duplicate pass before it is called.
IdleDup ==
    /\ video = << >>
    /\ sample_rate = 1
    /\ diff_threshold = 980
    /\ ssim_threshold = 950
    /\ dpc = "idle"
    /\ frame_number = 0
    /\ analyzed_count = 0
    /\ prev_frame = << >>
    /\ duplicate_count = 0
    /\ near_duplicate_count = 0
    /\ duplicate_frames = << >>
    /\ compared = << >>
    /\ dupResult = [kind |-> "none"]

\* The batch processor at rest.
IdleBatch ==
    /\ files = << >>
    /\ fileKind = << >>
    /\ max_workers = 1
    /\ hasCallback = FALSE
    /\ pc = "idle"
    /\ future_to_file = << >>
    /\ taskState = << >>
    /\ taskResult = << >>
    /\ taskAnalyzer = << >>
    /\ capOf = << >>
    /\ nextHandle = 1
    /\ releasedCaps = {}
    /\ analyzerCfg = DefaultAnalyzerCfg
    /\ yieldOrder = << >>
    /\ completed = 0
    /\ results = << >>
    /\ errorLog = << >>
    /\ callbackCalls = << >>

\* process_files, lines 84-91: every file is submitted before the loop starts.
Submit ==
    /\ pc = "start"
    /\ pc' = "harvest"
    /\ future_to_file' = [i \in Tasks |-> files[i]]
    /\ taskState' = [i \in Tasks |-> "pending"]
    /\ UNCHANGED <<files, fileKind, max_workers, hasCallback, taskResult,
                   taskAnalyzer, capOf, nextHandle, releasedCaps, analyzerCfg,
                   yieldOrder, completed, results, errorLog, callbackCalls>>
    /\ UNCHANGED nonBatchVars

Running == {i \in Tasks : taskState[i] = "running"}
Pending == {i \in Tasks : taskState[i] = "pending"}
Finished == {i \in Tasks : taskState[i] \in {"ok", "err"}}
yielded == {yieldOrder[k] : k \in 1..Len(yieldOrder)}

\* _analyze_file: the analyzer a task runs on.
AnalyzerFor(i) == SelfAnalyzer

\* cv2.VideoCapture(path): a new handle object per call.
\* (a variant that hands every task the same handle)
SharedHandle(n) == 1
NewHandle(n) == n

\* VideoAnalyzer.analyze, lines 141-148: the result carries the path it was
\* called with.
NewResult(video_path) ==
    [kind |-> "result", filepath |-> video_path]

\* A worker thread takes the oldest queued task and enters analyze():
\* lines 125-131 raise for a missing or unreadable file, otherwise the
\* capture is open.
StartTask(i) ==
    /\ pc = "harvest"
    /\ i \in Pending
    /\ \A j \in Pending : i <= j
    /\ Cardinality(Running) < max_workers
    /\ taskAnalyzer' = [taskAnalyzer EXCEPT ![i] = AnalyzerFor(i)]
    /\ IF fileKind[i] = "missing"
         THEN /\ taskState' = [taskState EXCEPT ![i] = "err"]
              /\ taskResult' = [taskResult EXCEPT ![i] =
                     [kind |-> "exception", error |-> "FileNotFoundError"]]
              /\ UNCHANGED <<capOf, nextHandle>>
       ELSE IF fileKind[i] = "corrupt"
         THEN /\ taskState' = [taskState EXCEPT ![i] = "err"]
              /\ taskResult' = [taskResult EXCEPT ![i] =
                     [kind |-> "exception", error |-> "ValueError"]]
              /\ UNCHANGED <<capOf, nextHandle>>
         ELSE /\ taskState' = [taskState EXCEPT ![i] = "running"]
              /\ capOf' = [capOf EXCEPT ![i] = NewHandle(nextHandle)]
              /\ nextHandle' = nextHandle + 1
              /\ UNCHANGED taskResult
    /\ UNCHANGED <<files, fileKind, max_workers, hasCallback, pc,
                   future_to_file, releasedCaps, analyzerCfg, yieldOrder,
                   completed, results, errorLog, callbackCalls>>
    /\ UNCHANGED nonBatchVars

\* analyze(), lines 133-159: the frame walk ends, the capture is released
\* and the result is returned.  A hung decode never gets here.
FinishTask(i) ==
    /\ i \in Running
    /\ fileKind[i] = "ok"
    /\ taskState' = [taskState EXCEPT ![i] = "ok"]
    /\ taskResult' = [taskResult EXCEPT ![i] = NewResult(future_to_file[i])]
    /\ releasedCaps' = releasedCaps \cup {capOf[i]}
    /\ capOf' = [capOf EXCEPT ![i] = 0]
    /\ UNCHANGED <<files, fileKind, max_workers, hasCallback, pc,
                   future_to_file, taskAnalyzer, nextHandle, analyzerCfg,
                   yieldOrder, completed, results, errorLog, callbackCalls>>
    /\ UNCHANGED nonBatchVars

\* analyze(), lines 150-159: the frame walk raises; the finally clause releases
\* the capture and the exception reaches the future.
FailTask(i) ==
    /\ i \in Running
    /\ fileKind[i] = "midfail"
    /\ taskState' = [taskState EXCEPT ![i] = "err"]
    /\ taskResult' = [taskResult EXCEPT ![i] =
           [kind |-> "exception", error |-> "DecodeError"]]
    /\ releasedCaps' = releasedCaps \cup {capOf[i]}
    /\ capOf' = [capOf EXCEPT ![i] = 0]
    /\ UNCHANGED <<files, fileKind, max_workers, hasCallback, pc,
                   future_to_file, taskAnalyzer, nextHandle, analyzerCfg,
                   yieldOrder, completed, results, errorLog, callbackCalls>>
    /\ UNCHANGED nonBatchVars

\* as_completed, line 94: a future is handed to the loop once it is done
\* (SequentialJoinReady: a variant that joins the futures in submission order).
SequentialJoinReady(i) ==
    /\ i \in Finished
    /\ i \notin yielded
    /\ \A j \in Tasks : j < i => j \in yielded
AsCompletedReady(i) ==
    /\ i \in Finished
    /\ i \notin yielded

\* line 96 (CompletedOnSuccessOnly: a variant that counts inside the try).
CompletedOnSuccessOnly(c, st) == IF st = "ok" THEN c + 1 ELSE c
CompletedAfter(c, st) == c + 1

\* lines 98-103: a result is appended, an exception is logged
\* (ResultsDropOnError: a variant whose handler disturbs the list;
\*  ErrorLogPositional: a variant that names the file by position).
ResultsDropOnError(res, st, r) ==
    IF st = "ok" THEN Append(res, r)
    ELSE IF Len(res) > 0 THEN SubSeq(res, 1, Len(res) - 1) ELSE res
ResultsAfter(res, st, r) == IF st = "ok" THEN Append(res, r) ELSE res

ErrorLogPositional(log, st, filepath, r) ==
    IF st = "ok" THEN log
    ELSE Append(log, [filepath |-> files[completed + 1], error |-> r.error])
ErrorLogAfter(log, st, filepath, r) ==
    IF st = "ok" THEN log
    ELSE Append(log, [filepath |-> filepath, error |-> r.error])

\* lines 105-106
CallbackAfter(calls, c, total, filepath) ==
    IF hasCallback THEN Append(calls, <<c, total, filepath>>) ELSE calls

\* One iteration of the loop of lines 94-106.
Harvest(i) ==
    /\ pc = "harvest"
    /\ AsCompletedReady(i)
    /\ yieldOrder' = Append(yieldOrder, i)
    /\ completed' = CompletedAfter(completed, taskState[i])
    /\ results' = ResultsAfter(results, taskState[i], taskResult[i])
    /\ errorLog' = ErrorLogAfter(errorLog, taskState[i], future_to_file[i],
                                 taskResult[i])
    /\ callbackCalls' = CallbackAfter(callbackCalls, completed', Len(files),
                                      future_to_file[i])
    /\ UNCHANGED <<files, fileKind, max_workers, hasCallback, pc,
                   future_to_file, taskState, taskResult, taskAnalyzer, capOf,
                   nextHandle, releasedCaps, analyzerCfg>>
    /\ UNCHANGED nonBatchVars

\* line 108: as_completed is exhausted, the executor has shut down.
Return ==
    /\ pc = "harvest"
    /\ yielded = Tasks
    /\ pc' = "returned"
    /\ UNCHANGED <<files, fileKind, max_workers, hasCallback, future_to_file,
                   taskState, taskResult, taskAnalyzer, capOf, nextHandle,
                   releasedCaps, analyzerCfg, yieldOrder, completed, results,
                   errorLog, callbackCalls>>
    /\ UNCHANGED nonBatchVars

NextBatch ==
    \/ Submit
    \/ \E i \in Tasks : StartTask(i)
    \/ \E i \in Tasks : FinishTask(i)
    \/ \E i \in Tasks : FailTask(i)
    \/ \E i \in Tasks : Harvest(i)
    \/ Return



(***************************************************************************)
(* Claims about BatchProcessor.process_files                               *)
(***************************************************************************)
Raises(i) == fileKind[i] \in {"missing", "corrupt", "midfail"}
Failing == {i \in Tasks : Raises(i)}
OkTasks == {i \in Tasks : fileKind[i] = "ok"}
ResultPaths == [k \in 1..Len(results) |-> results[k].filepath]
\* the tasks harvested so far whose future held a result, in harvest order
OkHarvested == SelectSeq(yieldOrder, LAMBDA i : taskState[i] = "ok")
\* the harvest order differs from the submission order
OutOfOrder ==
    \E k \in 1..Len(yieldOrder) : \E m \in 1..Len(yieldOrder) :
        k < m /\ yieldOrder[k] > yieldOrder[m]

C2_ResultsFollowTheirTask ==
    /\ Len(results) = Len(OkHarvested)
    /\ \A k \in 1..Len(results) :
         /\ results[k].kind = "result"
         /\ results[k].filepath = files[OkHarvested[k]]
    /\ pc = "returned" =>
         \A i \in OkTasks :
           Cardinality({k \in 1..Len(results) : results[k].filepath = files[i]}) = 1

C2_Witness ==
    /\ pc = "returned"
    /\ Cardinality(OkTasks) >= 2
    /\ Failing # {}
    /\ OutOfOrder
    /\ \E k \in 1..Len(results) : results[k].filepath # files[k]
    /\ Len(errorLog) >= 1 /\ \E k \in 1..Len(yieldOrder) :
         k < Len(yieldOrder) /\ yieldOrder[k] \in Failing

\* C3: with a callback supplied, the i-th invocation receives (i, N, path of
\* the i-th harvested task), whether that task succeeded or failed; when
\* process_files returns there have been exactly N invocations, every file
\* reported exactly once, none when N = 0.
C3_CallbackOncePerTask ==
    hasCallback =>
      /\ Len(callbackCalls) = Len(yieldOrder)
      /\ \A k \in 1..Len(callbackCalls) :
           callbackCalls[k] = <<k, Len(files), files[yieldOrder[k]]>>
      /\ pc = "returned" =>
           /\ Len(callbackCalls) = Len(files)
           /\ \A i \in Tasks :
                Cardinality({k \in 1..Len(callbackCalls) :
                               callbackCalls[k][3] = files[i]}) = 1
           /\ (Len(files) = 0 => callbackCalls = << >>)

C3_Witness ==
    /\ hasCallback
    /\ pc = "returned"
    /\ Len(files) >= 3
    /\ Len(callbackCalls) = 3
    /\ Failing # {} /\ OkTasks # {}
    /\ yieldOrder[1] \in Failing
    /\ OutOfOrder

\* C4 as stated: no analyzer instance is used by two tasks of a batch.
C4_OwnAnalyzerPerTask ==
    \A i \in Tasks : \A j \in Tasks :
        (i # j /\ taskAnalyzer[i] # 0 /\ taskAnalyzer[j] # 0)
            => taskAnalyzer[i] # taskAnalyzer[j]

\* C4 amended: every task that holds a decoding handle holds one of its own,
\* not yet released; all tasks run on the processor's single analyzer, whose
\* fields are never written during the batch.
C4_OwnHandleSharedReadOnlyAnalyzer ==
    /\ \A i \in Running : capOf[i] # 0 /\ capOf[i] \notin releasedCaps
    /\ \A i \in Running : \A j \in Running : i # j => capOf[i] # capOf[j]
    /\ \A i \in Tasks : taskAnalyzer[i] \in {0, SelfAnalyzer}
    /\ analyzerCfg = DefaultAnalyzerCfg

C4_Witness ==
    \E i \in Running : \E j \in Running :
        /\ i # j
        /\ capOf[i] # capOf[j]
        /\ taskAnalyzer[i] = SelfAnalyzer /\ taskAnalyzer[j] = SelfAnalyzer
        /\ releasedCaps # {}

\* C5: every task that has completed is eventually harvested (its outcome
\* collected and, if a callback was supplied, reported), also in runs where
\* another task of the batch never finishes.
Reported(i) ==
    /\ i \in yielded
    /\ hasCallback => \E k \in 1..Len(callbackCalls) :
                          callbackCalls[k][3] = files[i]
    /\ taskState[i] = "ok" => \E k \in 1..Len(results) :
                                  results[k].filepath = files[i]
C5_CompletedTasksAreHarvested ==
    \A i \in 1..MaxFiles :
        (i \in Finished) ~> (i \in Tasks /\ Reported(i))

\* a task hangs forever while a task submitted after it has been harvested
C5_Witness ==
    \E h \in Running : \E i \in Tasks :
        /\ fileKind[h] = "hang"
        /\ h < i
        /\ Reported(i)
        /\ hasCallback
        /\ Running = {h} /\ Pending = {} /\ yielded = Tasks \ {h}

(***************************************************************************)
(* Exact arithmetic.  The source computes in 64-bit floating point; the    *)
(* model computes the same quantities as exact rationals.  Products that   *)
(* exceed 32 bits are held as naturals in base 10^4, least digit first.    *)
(***************************************************************************)
Max(a, b) == IF a >= b THEN a ELSE b
Min(a, b) == IF a <= b THEN a ELSE b
Abs(a) == IF a >= 0 THEN a ELSE -a

RECURSIVE SumSeq(_)
SumSeq(q) == IF q = << >> THEN 0 ELSE Head(q) + SumSeq(Tail(q))

RECURSIVE BigCarry(_, _)
BigCarry(ds, carry) ==
    IF ds = << >>
      THEN IF carry = 0 THEN << >>
           ELSE <<carry % 10000>> \o BigCarry(<< >>, carry \div 10000)
      ELSE <<(Head(ds) + carry) % 10000>>
             \o BigCarry(Tail(ds), (Head(ds) + carry) \div 10000)

Big(n) == BigCarry(<<n>>, 0)
BigDigit(a, k) == IF k <= Len(a) THEN a[k] ELSE 0
BigAdd(a, b) ==
    BigCarry([k \in 1..Max(Len(a), Len(b)) |-> BigDigit(a, k) + BigDigit(b, k)], 0)
BigMul(a, b) ==
    IF a = << >> \/ b = << >> THEN << >>
    ELSE BigCarry([k \in 1..(Len(a) + Len(b) - 1) |->
                    SumSeq([i \in 1..Len(a) |->
                              IF k + 1 - i >= 1 /\ k + 1 - i <= Len(b)
                                THEN a[i] * b[k + 1 - i] ELSE 0])], 0)
RECURSIVE BigGEqFrom(_, _, _)
BigGEqFrom(a, b, k) ==
    IF k = 0 THEN TRUE
    ELSE IF BigDigit(a, k) > BigDigit(b, k) THEN TRUE
    ELSE IF BigDigit(a, k) < BigDigit(b, k) THEN FALSE
    ELSE BigGEqFrom(a, b, k - 1)
BigGEq(a, b) == BigGEqFrom(a, b, Max(Len(a), Len(b)))
BigEq(a, b) == BigGEq(a, b) /\ BigGEq(b, a)

(***************************************************************************)
(* video_analyzer.py: the duplicate / near-duplicate pass                  *)
(***************************************************************************)
\* The frames of the model are grayscale buffers of four 8-bit pixels
\* (cv2.cvtColor already applied).
FramePool ==
    { <<100, 100, 101, 101>>, <<101, 101, 100, 100>>, <<100, 100, 104, 104>>,
      <<200, 200, 200, 200>>, <<210, 210, 210, 210>>, <<240, 240, 240, 240>> }

MaxDupFrames == 3
MaxStride == 2

RECURSIVE SeqsUpTo(_, _)
SeqsUpTo(S, n) ==
    IF n = 0 THEN {<< >>}
    ELSE LET shorter == SeqsUpTo(S, n - 1)
         IN  shorter \cup {Append(q, x) : q \in {r \in shorter : Len(r) = n - 1}, x \in S}

\* cv2.resize(gray, (160, 120)): the downsampled grid; here each pair of
\* neighbouring pixels is averaged (rounded half up).
Resize(gray) ==
    [k \in 1..(Len(gray) \div 2) |-> (gray[2 * k - 1] + gray[2 * k] + 1) \div 2]

\* cv2.absdiff on 8-bit buffers (AbsDiffWrapped: a variant that subtracts
\* with 8-bit wrap-around).
AbsDiffWrapped(a, b) == [k \in 1..Len(a) |-> (a[k] - b[k]) % 256]
AbsDiff(a, b) == [k \in 1..Len(a) |-> Abs(a[k] - b[k])]

\* diff_percentage = 1 - mean(absdiff)/255 as the fraction <<num, den>>.
DiffInverted(a, b) == <<SumSeq(AbsDiff(a, b)), 255 * Len(a)>>
DiffPercentage(a, b) ==
    <<255 * Len(a) - SumSeq(AbsDiff(a, b)), 255 * Len(a)>>
\* diff_percentage >= t / 1000
DiffGEq(d, t) == 1000 * d[1] >= t * d[2]

\* _calculate_simple_ssim.  With n pixels, S = sum, Q = sum of squares and
\* P = sum of products, and every factor multiplied by 10^4 * n^2:
\*   2*mu1*mu2 + C1          = lumNum          = 2*10^4*S1*S2 + n^2
\*   mu1^2 + mu2^2 + C1      = lumDen          = 10^4*(S1^2 + S2^2) + n^2
\*   2*sigma12 + C2          = covPos - covNeg = 2*10^4*(n*P - S1*S2) + 9*n^2
\*   sigma1_sq+sigma2_sq+C2  = varDen  = 10^4*(n*Q1 - S1^2 + n*Q2 - S2^2) + 9*n^2
SsimNoMeanRemoval(img1, img2) ==
    LET n == Len(img1)
        S1 == SumSeq(img1)
        S2 == SumSeq(img2)
        P  == SumSeq([k \in 1..n |-> img1[k] * img2[k]])
        Q1 == SumSeq([k \in 1..n |-> img1[k] * img1[k]])
        Q2 == SumSeq([k \in 1..n |-> img2[k] * img2[k]])
    IN  [lumNum |-> BigAdd(BigMul(Big(20000), Big(S1 * S2)), Big(n * n)),
         lumDen |-> BigAdd(BigMul(Big(10000), Big(S1 * S1 + S2 * S2)), Big(n * n)),
         covPos |-> BigAdd(BigMul(Big(20000), Big(n * P)), Big(9 * n * n)),
         covNeg |-> << >>,
         varDen |-> BigAdd(BigMul(Big(10000),
                                  Big(n * Q1 - S1 * S1 + n * Q2 - S2 * S2)),
                           Big(9 * n * n))]
SimpleSsim(img1, img2) ==
    LET n == Len(img1)
        S1 == SumSeq(img1)
        S2 == SumSeq(img2)
        P  == SumSeq([k \in 1..n |-> img1[k] * img2[k]])
        Q1 == SumSeq([k \in 1..n |-> img1[k] * img1[k]])
        Q2 == SumSeq([k \in 1..n |-> img2[k] * img2[k]])
        cov == n * P - S1 * S2
    IN  [lumNum |-> BigAdd(BigMul(Big(20000), Big(S1 * S2)), Big(n * n)),
         lumDen |-> BigAdd(BigMul(Big(10000), Big(S1 * S1 + S2 * S2)), Big(n * n)),
         covPos |-> BigAdd(BigMul(Big(20000), Big(Max(cov, 0))), Big(9 * n * n)),
         covNeg |-> BigMul(Big(20000), Big(Max(-cov, 0))),
         varDen |-> BigAdd(BigMul(Big(10000),
                                  Big(n * Q1 - S1 * S1 + n * Q2 - S2 * S2)),
                           Big(9 * n * n))]
\* ssim >= t / 1000:
\*   1000 * lumNum * covPos >= t * lumDen * varDen + 1000 * lumNum * covNeg
SsimGEq(s, t) ==
    BigGEq(BigMul(Big(1000), BigMul(s.lumNum, s.covPos)),
           BigAdd(BigMul(Big(t), BigMul(s.lumDen, s.varDen)),
                  BigMul(Big(1000), BigMul(s.lumNum, s.covNeg))))
\* ssim = 1
SsimIsOne(s) ==
    BigEq(BigMul(s.lumNum, s.covPos),
          BigAdd(BigMul(s.lumDen, s.varDen), BigMul(s.lumNum, s.covNeg)))

\* lines 1216-1221: what a compared frame counts as.
ClassifyFlat(d, s, dt, st) ==
    IF DiffGEq(d, 995) \/ SsimGEq(s, 990) THEN "exact"
    ELSE IF DiffGEq(d, dt) \/ SsimGEq(s, st) THEN "near"
    ELSE "distinct"
ClassifyDiffOnly(d, s, dt, st) ==
    IF DiffGEq(d, dt)
      THEN IF DiffGEq(d, 995) THEN "exact" ELSE "near"
      ELSE "distinct"
Classify(d, s, dt, st) ==
    IF DiffGEq(d, dt) \/ SsimGEq(s, st)
      THEN IF DiffGEq(d, 995) \/ SsimGEq(s, 990) THEN "exact" ELSE "near"
      ELSE "distinct"

\* analyze_motion_quality is called with a stride and the two thresholds.
InitDup ==
    /\ video \in SeqsUpTo(FramePool, MaxDupFrames)
    /\ sample_rate \in 1..MaxStride
    /\ diff_threshold \in {980, 999}
    /\ ssim_threshold \in {950, 995}
    /\ dpc = "walk"
    /\ frame_number = 0
    /\ analyzed_count = 0
    /\ prev_frame = << >>
    /\ duplicate_count = 0
    /\ near_duplicate_count = 0
    /\ duplicate_frames = << >>
    /\ compared = << >>
    /\ dupResult = [kind |-> "none"]

\* line 1188: frame_number % sample_rate != 0 skips the frame
OnStrideFromOne(n, rate) == (n + 1) % rate = 0
OnStride(n, rate) == n % rate = 0

\* lines 1188-1190: a frame off the stride is only counted.
DupSkip ==
    /\ dpc = "walk"
    /\ frame_number < Len(video)
    /\ ~OnStride(frame_number, sample_rate)
    /\ frame_number' = frame_number + 1
    /\ UNCHANGED <<video, sample_rate, diff_threshold, ssim_threshold, dpc,
                   analyzed_count, prev_frame, duplicate_count,
                   near_duplicate_count, duplicate_frames, compared, dupResult>>
    /\ UNCHANGED nonDupVars

\* lines 1192-1224: a sampled frame is compared with the previous sampled one.
DupSample ==
    /\ dpc = "walk"
    /\ frame_number < Len(video)
    /\ OnStride(frame_number, sample_rate)
    /\ LET gray == video[frame_number + 1]
           small == Resize(gray)
       IN  /\ analyzed_count' = analyzed_count + 1
           /\ IF prev_frame # << >>
                THEN LET prev_small == Resize(prev_frame)
                         d == DiffPercentage(small, prev_small)
                         s == SimpleSsim(small, prev_small)
                         kind == Classify(d, s, diff_threshold, ssim_threshold)
                     IN  /\ duplicate_count' =
                               IF kind = "exact" THEN duplicate_count + 1
                               ELSE duplicate_count
                         /\ duplicate_frames' =
                               IF kind = "exact"
                                 THEN Append(duplicate_frames, frame_number)
                                 ELSE duplicate_frames
                         /\ near_duplicate_count' =
                               IF kind = "near" THEN near_duplicate_count + 1
                               ELSE near_duplicate_count
                         /\ compared' = Append(compared,
                               [frame |-> frame_number, prev |-> prev_frame,
                                curr |-> gray, diff |-> d, ssim |-> s,
                                exact |-> duplicate_count' - duplicate_count,
                                near |-> near_duplicate_count' - near_duplicate_count])
                ELSE UNCHANGED <<duplicate_count, duplicate_frames,
                                 near_duplicate_count, compared>>
           /\ prev_frame' = gray
    /\ frame_number' = frame_number + 1
    /\ UNCHANGED <<video, sample_rate, diff_threshold, ssim_threshold, dpc,
                   dupResult>>
    /\ UNCHANGED nonDupVars

\* lines 1185-1186 and 1231-1245: the stream has ended; the ratios are
\* fractions <<num, den>>.
DupReturn ==
    /\ dpc = "walk"
    /\ frame_number = Len(video)
    /\ dpc' = "done"
    /\ dupResult' =
         [kind |-> "result",
          duplicate_frame_count |-> duplicate_count,
          near_duplicate_frame_count |-> near_duplicate_count,
          total_analyzed_frames |-> analyzed_count,
          analyzed_frame_count |-> analyzed_count,
          duplicate_ratio |->
             IF analyzed_count > 0 THEN <<duplicate_count, analyzed_count>>
             ELSE <<0, 1>>,
          near_duplicate_ratio |->
             IF analyzed_count > 0 THEN <<near_duplicate_count, analyzed_count>>
             ELSE <<0, 1>>,
          total_duplicate_ratio |->
             IF analyzed_count > 0
               THEN <<duplicate_count + near_duplicate_count, analyzed_count>>
               ELSE <<0, 1>>,
          duplicate_frame_indices |->
             SubSeq(duplicate_frames, 1, Min(100, Len(duplicate_frames)))]
    /\ UNCHANGED <<video, sample_rate, diff_threshold, ssim_threshold,
                   frame_number, analyzed_count, prev_frame, duplicate_count,
                   near_duplicate_count, duplicate_frames, compared>>
    /\ UNCHANGED nonDupVars

NextDup == DupSkip \/ DupSample \/ DupReturn


(***************************************************************************)
(* Claims about the duplicate pass                                         *)
(***************************************************************************)
\* what the counters did with a compared frame
CountedAs(e) ==
    IF e.exact = 1 /\ e.near = 0 THEN "exact"
    ELSE IF e.exact = 0 /\ e.near = 1 THEN "near"
    ELSE IF e.exact = 0 /\ e.near = 0 THEN "distinct"
    ELSE "both"
StrongPair(e) == DiffGEq(e.diff, 995) \/ SsimGEq(e.ssim, 990)
GatedPair(e) ==
    DiffGEq(e.diff, diff_threshold) \/ SsimGEq(e.ssim, ssim_threshold)

\* C6 as stated: for every configuration of the two thresholds a compared
\* frame counts as exact when diff_pct >= 0.995 or SSIM >= 0.99, otherwise as
\* near when diff_pct >= duplicate_threshold or SSIM >= ssim_threshold,
\* otherwise as distinct.
C6_FlatRuleEveryConfiguration ==
    \A k \in 1..Len(compared) :
        CountedAs(compared[k]) =
            IF StrongPair(compared[k]) THEN "exact"
            ELSE IF GatedPair(compared[k]) THEN "near"
            ELSE "distinct"

\* C6 amended: a compared frame is a duplicate candidate when
\* diff_pct >= duplicate_threshold or SSIM >= ssim_threshold; a candidate
\* counts as exact when diff_pct >= 0.995 or SSIM >= 0.99 and as near
\* otherwise; a frame that is no candidate is distinct.  With
\* duplicate_threshold <= 0.995 and ssim_threshold <= 0.99 this is the rule
\* as stated.
C6_GatedRule ==
    \A k \in 1..Len(compared) :
        /\ (GatedPair(compared[k]) /\ StrongPair(compared[k]))
             => CountedAs(compared[k]) = "exact"
        /\ (GatedPair(compared[k]) /\ ~StrongPair(compared[k]))
             => CountedAs(compared[k]) = "near"
        /\ ~GatedPair(compared[k]) => CountedAs(compared[k]) = "distinct"
        /\ (diff_threshold <= 995 /\ ssim_threshold <= 990)
             => CountedAs(compared[k]) =
                  IF StrongPair(compared[k]) THEN "exact"
                  ELSE IF GatedPair(compared[k]) THEN "near"
                  ELSE "distinct"

\* under thresholds stricter than 0.995 / 0.99 a frame with diff_pct >= 0.995
\* is left distinct, while an identical frame of the same video is exact
C6_Witness ==
    /\ dpc = "done"
    /\ diff_threshold = 999 /\ ssim_threshold = 995
    /\ Len(compared) = 2
    /\ StrongPair(compared[1]) /\ ~GatedPair(compared[1])
    /\ CountedAs(compared[1]) = "distinct"
    /\ CountedAs(compared[2]) = "exact"
    /\ dupResult.duplicate_frame_count = 1
    /\ dupResult.near_duplicate_frame_count = 0

\* C7: a sampled frame that is bit-identical to the previous sampled frame
\* has diff_pct = 1 and approximate SSIM = 1, hence a similarity >= 0.99, and
\* is counted as an exact duplicate.
C7_IdenticalFramesAreExactDuplicates ==
    \A k \in 1..Len(compared) :
        compared[k].prev = compared[k].curr =>
            /\ compared[k].diff[1] = compared[k].diff[2]
            /\ SsimIsOne(compared[k].ssim)
            /\ DiffGEq(compared[k].diff, 990)
            /\ SsimGEq(compared[k].ssim, 990)
            /\ CountedAs(compared[k]) = "exact"
            /\ duplicate_count >= 1

C7_Witness ==
    /\ dpc = "done"
    /\ diff_threshold = 999 /\ ssim_threshold = 995
    /\ sample_rate = 2
    /\ Len(compared) = 1
    /\ compared[1].prev = compared[1].curr
    /\ compared[1].curr = <<100, 100, 101, 101>>
    /\ dupResult.duplicate_frame_count = 1
    /\ dupResult.duplicate_frame_indices = <<2>>

\* the frames the pass samples: the indices that are multiples of the stride
SampledIndices == {n \in 0..(Len(video) - 1) : n % sample_rate = 0}
SampledCount == Cardinality(SampledIndices)

\* what the pass does for a given number of classified frames
DupPassSamplesAndClassifies(classified) ==
    /\ analyzed_count = SampledCount
    /\ SampledCount = (Len(video) + sample_rate - 1) \div sample_rate
    /\ dupResult.analyzed_frame_count = SampledCount
    /\ Len(compared) = classified
    /\ \A k \in 1..Len(compared) :
         /\ compared[k].frame = k * sample_rate
         /\ compared[k].curr = video[k * sample_rate + 1]
         /\ compared[k].prev = video[(k - 1) * sample_rate + 1]
    /\ duplicate_count + near_duplicate_count =
         Cardinality({k \in 1..Len(compared) : CountedAs(compared[k]) # "distinct"})
    /\ duplicate_count + near_duplicate_count <= classified
    /\ dupResult.total_duplicate_ratio[1] < dupResult.total_duplicate_ratio[2]

\* C26 as stated: for a video of F frames and stride s >= 1 the pass samples
\* the ceil(F / s) frames whose index is a multiple of s, compares each
\* sampled frame after the first with the previous sampled frame only, and so
\* classifies exactly sampled-count - 1 frames; exact + near never exceed
\* sampled-count - 1 and the total duplicate ratio is below 1.
C26_ClassifiesSampledMinusOne ==
    dpc = "done" => DupPassSamplesAndClassifies(SampledCount - 1)

\* C26 for every video, the empty one included: the number of classified
\* frames is max(0, sampled-count - 1), which is sampled-count - 1 as soon as
\* one frame is read.
C26_ClassifiesSampledMinusOneIfAny ==
    dpc = "done" => DupPassSamplesAndClassifies(Max(0, SampledCount - 1))

\* 3 frames at stride 2: frames 0 and 2 are sampled and frame 2 is compared
\* with frame 0, not with frame 1
C26_Witness ==
    /\ dpc = "done"
    /\ Len(video) = 3
    /\ sample_rate = 2
    /\ video[1] # video[2]
    /\ SampledCount = 2
    /\ Len(compared) = 1
    /\ compared[1].prev = video[1]
    /\ duplicate_count + near_duplicate_count = 1

(***************************************************************************)
(* video_analyser/analyzer.py: _calculate_motion                           *)
(***************************************************************************)
BufLen == 2
PixelValues == {0, 1, 50, 51, 100, 205, 255}

IdlePair ==
    /\ prev_gray = << >>
    /\ curr_gray = << >>
    /\ mpc = "idle"
    /\ motion_score = <<0, 1>>

InitPair ==
    /\ prev_gray \in [1..BufLen -> PixelValues]
    /\ curr_gray \in [1..BufLen -> PixelValues]
    /\ mpc = "call"
    /\ motion_score = <<0, 1>>

\* lines 245-246: float(np.mean(cv2.absdiff(prev_gray, curr_gray)))
CalculateMotion(a, b) == <<SumSeq(AbsDiff(a, b)), Len(a)>>

CalcMotion ==
    /\ mpc = "call"
    /\ mpc' = "done"
    /\ motion_score' = CalculateMotion(prev_gray, curr_gray)
    /\ UNCHANGED <<prev_gray, curr_gray>>
    /\ UNCHANGED nonPairVars

NextPair == CalcMotion

(***************************************************************************)
(* Claims about _calculate_motion                                          *)
(***************************************************************************)
UniformOffset(a, b, k) ==
    \/ \A i \in 1..Len(a) : b[i] = a[i] + k
    \/ \A i \in 1..Len(a) : a[i] = b[i] + k

\* C8: the motion magnitude of two equally shaped 8-bit buffers is the mean
\* of the pixel-wise absolute differences: exactly 0 for identical buffers,
\* exactly k for buffers that differ by a uniform offset k, always in [0,255].
C8_MotionIsMeanAbsDiff ==
    mpc = "done" =>
      /\ motion_score[2] = Len(prev_gray) /\ motion_score[2] > 0
      /\ motion_score[1] =
           SumSeq([i \in 1..Len(prev_gray) |->
                     Max(prev_gray[i], curr_gray[i]) - Min(prev_gray[i], curr_gray[i])])
      /\ prev_gray = curr_gray => motion_score[1] = 0
      /\ \A k \in 0..255 :
           UniformOffset(prev_gray, curr_gray, k)
             => motion_score[1] = k * motion_score[2]
      /\ 0 <= motion_score[1] /\ motion_score[1] <= 255 * motion_score[2]

\* the case of test_calculate_motion, in both directions
C8_Witness ==
    /\ mpc = "done"
    /\ \A i \in 1..Len(prev_gray) : prev_gray[i] = 50 /\ curr_gray[i] = 0
    /\ motion_score[1] = 50 * motion_score[2]

(***************************************************************************)
(* batch_analyze.py: calculate_overall_score                               *)
(***************************************************************************)
\* round(x, 2) of x = num / den hundredths, num >= 0: to the nearest
\* hundredth, a tie to the even one.
RoundDiv(num, den) ==
    LET q == num \div den
        r == num % den
    IN  IF 2 * r > den THEN q + 1
        ELSE IF 2 * r = den THEN q + (q % 2)
        ELSE q

\* ---- binary64 values below 128, kept exactly as the integer value * 2^59
\* ---- (a multi-digit number of the operators above) ----
RECURSIVE BigDivFrom(_, _, _, _)
BigDivFrom(a, d, k, rem) ==
    IF k = 0 THEN [q |-> << >>, r |-> rem]
    ELSE CHOOSE res \in
           {[q |-> Append(rest[2].q, rest[1] \div d), r |-> rest[2].r] :
            rest \in {<<cur, BigDivFrom(a, d, k - 1, cur % d)>> :
                      cur \in {rem * 10000 + a[k]}}} : TRUE

\* quotient and remainder of a by the small divisor d
BigDivSmall(a, d) == BigDivFrom(a, d, Len(a), 0)

RECURSIVE BigPow2(_)
BigPow2(n) ==
    IF n >= 13
      THEN CHOOSE r \in {BigMul(Big(8192), p) : p \in {BigPow2(n - 13)}} : TRUE
      ELSE Big(2 ^ n)

RECURSIVE BigToInt(_)
BigToInt(a) == IF a = << >> THEN 0 ELSE Head(a) + 10000 * BigToInt(Tail(a))

BigIsOdd(a) == BigDigit(a, 1) % 2 = 1

\* a / d to the nearest integer, a tie to the even one
BigRoundDiv(a, d) ==
    LET dr == BigDivSmall(a, d)
        up == \/ 2 * dr.r > d
              \/ 2 * dr.r = d /\ BigIsOdd(dr.q)
    IN  IF up THEN BigAdd(dr.q, Big(1)) ELSE dr.q

\* a \div 2^n, and whether a non-zero remainder was dropped
RECURSIVE BigShiftRight(_, _)
BigShiftRight(a, n) ==
    IF n = 0 THEN [q |-> a, sticky |-> FALSE]
    ELSE CHOOSE res \in
           {[q |-> rest[2].q, sticky |-> rest[2].sticky \/ rest[1].r # 0] :
            rest \in {<<dr, BigShiftRight(dr.q, n - Min(n, 13))>> :
                      dr \in {BigDivSmall(a, 2 ^ Min(n, 13))}}} : TRUE

\* the number of low bits a 53-bit significand cannot hold
DroppedBits(x) ==
    LET top == BigToInt(BigShiftRight(x, 40).q)
    IN  CHOOSE s \in 0..14 :
            /\ top < 2 ^ (13 + s)
            /\ s > 0 => top >= 2 ^ (12 + s)

\* round-to-nearest-even of an exact value to binary64
FloatRound(x) ==
    CHOOSE r \in {LET s == DroppedBits(v)
                  IN  IF s = 0 THEN v ELSE BigMul(BigRoundDiv(v, 2 ^ s), Big(2 ^ s)) :
                  v \in {x}} : TRUE

\* the binary64 nearest to h / 100: what round(x, 2) returns and what the
\* integer scores convert to
FloatOfHundredths(h) ==
    LET t == CHOOSE u \in 0..14 :
                 /\ h * 64 < 100 * (2 ^ u)
                 /\ u > 0 => h * 64 >= 100 * (2 ^ (u - 1))
    IN  BigMul(BigRoundDiv(BigMul(Big(h), BigPow2(59 - t)), 100), Big(2 ^ t))

FloatAdd(a, b) == FloatRound(BigAdd(a, b))

\* x >= n for a binary64 x and an integer n
FloatGEqInt(x, n) == BigToInt(BigShiftRight(x, 59).q) >= n

\* round(x, 2) of a binary64 x, in hundredths
FloatRoundHundredths(x) ==
    LET sh == BigShiftRight(BigMul(x, Big(100)), 58)
        y == BigToInt(sh.q)
        h == y \div 2
    IN  IF y % 2 = 1 /\ (sh.sticky \/ h % 2 = 1) THEN h + 1 ELSE h

IdleScore ==
    /\ fps_stats = [mean_fps |-> 0, std_fps |-> 0]
    /\ pts_data = [has_jitter_percentage |-> FALSE, jitter_percentage |-> 0]
    /\ dup_data = [total_duplicate_ratio |-> <<0, 1>>]
    /\ motion_data = [has_motion_continuity_score |-> FALSE,
                      motion_continuity_score |-> 0]
    /\ wobble_data = [wobble_distortion_score |-> 0]
    /\ resolution = [width |-> 0, height |-> 0]
    /\ spc = "idle"
    /\ scores = [kind |-> "none"]

\* The analyzer outputs handed to calculate_overall_score: fps in thousandths
\* of a frame per second, percentages and 0-100 scores in thousandths, the
\* duplicate ratio as a fraction below 1.  _analyze_pts_jitter leaves out
\* jitter_percentage and _analyze_motion_continuity leaves out
\* motion_continuity_score when the video has too few frames.
InitScore ==
    /\ fps_stats \in {[mean_fps |-> m[1], std_fps |-> m[2]] :
                        m \in {<<0, 0>>, <<30000, 0>>, <<30000, 3000>>,
                               <<29970, 17>>, <<24000, 12000>>, <<10000, 20000>>}}
    /\ pts_data \in {[has_jitter_percentage |-> FALSE, jitter_percentage |-> 0]}
                    \cup {[has_jitter_percentage |-> TRUE, jitter_percentage |-> j] :
                            j \in {0, 1234, 50000, 200000}}
    /\ dup_data \in {[total_duplicate_ratio |-> r] :
                       r \in {<<0, 1>>, <<1, 250>>, <<1, 3>>, <<2, 3>>}}
    /\ motion_data \in {[has_motion_continuity_score |-> FALSE,
                         motion_continuity_score |-> 0]}
                       \cup {[has_motion_continuity_score |-> TRUE,
                              motion_continuity_score |-> c] :
                               c \in {0, 33333, 49720, 100000}}
    /\ wobble_data \in {[wobble_distortion_score |-> w] : w \in {0, 12345, 100000}}
    /\ resolution \in {[width |-> r[1], height |-> r[2]] :
                         r \in {<<0, 0>>, <<640, 480>>, <<1280, 720>>,
                                <<720, 1280>>, <<1920, 1080>>, <<3840, 2160>>}}
    /\ spc = "call"
    /\ scores = [kind |-> "none"]

\* lines 103-109: max(0, 25 - cv * 0.5), cv = std_fps / mean_fps * 100, or
\* cv = 100 when mean_fps is not positive.
FpsStabilityScore(st) ==
    IF st.mean_fps > 0
      THEN RoundDiv(Max(0, 2500 * st.mean_fps - 5000 * st.std_fps), st.mean_fps)
      ELSE Max(0, 2500 - 5000)

\* lines 112-118: max(0, 15 - jitter_pct * 0.3), jitter_pct defaulting to 100.
PtsJitterScore(pd) ==
    LET jitter_pct == IF pd.has_jitter_percentage THEN pd.jitter_percentage
                      ELSE 100000
    IN  RoundDiv(Max(0, 1500000 - 30 * jitter_pct), 1000)

\* lines 121-127: max(0, 15 - dup_ratio * 3), dup_ratio = ratio * 100.
DuplicateScore(dd) ==
    LET r == dd.total_duplicate_ratio
    IN  RoundDiv(Max(0, 1500 * r[2] - 30000 * r[1]), r[2])

\* lines 130-135: motion_continuity_score * 0.25, the score defaulting to 0.
MotionContinuityScoreHalved(md) ==
    LET c == IF md.has_motion_continuity_score THEN md.motion_continuity_score
             ELSE 0
    IN  RoundDiv(50 * c, 1000)
MotionContinuityScore(md) ==
    LET c == IF md.has_motion_continuity_score THEN md.motion_continuity_score
             ELSE 0
    IN  RoundDiv(25 * c, 1000)

\* lines 138-144: max(0, 10 - wobble_distortion_score * 0.1).
WobbleScore(wd) ==
    RoundDiv(Max(0, 1000000 - 10 * wd.wobble_distortion_score), 1000)

\* lines 147-161: the resolution tiers.
ResolutionScore(res) ==
    IF res.width >= 3840 \/ res.height >= 2160 THEN 1000
    ELSE IF res.width >= 1920 \/ res.height >= 1080 THEN 800
    ELSE IF res.width >= 1280 \/ res.height >= 720 THEN 500
    ELSE 300

\* lines 168-177: the grades (excellent, good, fair, poor, very poor).
GradeStrict(total_score) ==
    IF FloatGEqInt(total_score, 95) THEN "excellent"
    ELSE IF FloatGEqInt(total_score, 80) THEN "good"
    ELSE IF FloatGEqInt(total_score, 70) THEN "fair"
    ELSE IF FloatGEqInt(total_score, 60) THEN "poor"
    ELSE "very poor"
Grade(total_score) ==
    IF FloatGEqInt(total_score, 90) THEN "excellent"
    ELSE IF FloatGEqInt(total_score, 80) THEN "good"
    ELSE IF FloatGEqInt(total_score, 70) THEN "fair"
    ELSE IF FloatGEqInt(total_score, 60) THEN "poor"
    ELSE "very poor"

\* calculate_overall_score, lines 98-179.
CalculateOverallScore ==
    /\ spc = "call"
    /\ spc' = "done"
    /\ \E fps_stability \in {FpsStabilityScore(fps_stats)},
          pts_jitter \in {PtsJitterScore(pts_data)},
          duplicate \in {DuplicateScore(dup_data)},
          motion_continuity \in {MotionContinuityScore(motion_data)},
          wobble \in {WobbleScore(wobble_data)},
          quality \in {ResolutionScore(resolution)} :
          \* line 164: sum(scores.values()), binary64 additions in the
          \* order the keys were inserted
          \E total_score \in
               {FloatAdd(FloatAdd(FloatAdd(FloatAdd(FloatAdd(
                   FloatOfHundredths(fps_stability),
                   FloatOfHundredths(pts_jitter)),
                   FloatOfHundredths(duplicate)),
                   FloatOfHundredths(motion_continuity)),
                   FloatOfHundredths(wobble)),
                   FloatOfHundredths(quality))} :
            scores' = [kind |-> "scores",
                       fps_stability |-> fps_stability,
                       pts_jitter |-> pts_jitter,
                       duplicate_frames |-> duplicate,
                       motion_continuity |-> motion_continuity,
                       wobble |-> wobble,
                       quality |-> quality,
                       total |-> FloatRoundHundredths(total_score),
                       grade |-> Grade(total_score)]
    /\ UNCHANGED <<fps_stats, pts_data, dup_data, motion_data, wobble_data,
                   resolution>>
    /\ UNCHANGED nonScoreVars

NextScore == CalculateOverallScore

(***************************************************************************)
(* Claims about calculate_overall_score                                    *)
(***************************************************************************)
\* C9: every sub-score lies in its cap range (FPS stability [0,25], jitter
\* [0,15], duplicate frames [0,15], motion continuity [0,25], wobble [0,10],
\* resolution [0,10]) and the total is the sum of the sub-scores, in [0,100].
C9_SubScoresInRangeTotalIsSum ==
    spc = "done" =>
      /\ 0 <= scores.fps_stability /\ scores.fps_stability <= 2500
      /\ 0 <= scores.pts_jitter /\ scores.pts_jitter <= 1500
      /\ 0 <= scores.duplicate_frames /\ scores.duplicate_frames <= 1500
      /\ 0 <= scores.motion_continuity /\ scores.motion_continuity <= 2500
      /\ 0 <= scores.wobble /\ scores.wobble <= 1000
      /\ 0 <= scores.quality /\ scores.quality <= 1000
      /\ scores.total = scores.fps_stability + scores.pts_jitter
                          + scores.duplicate_frames + scores.motion_continuity
                          + scores.wobble + scores.quality
      /\ 0 <= scores.total /\ scores.total <= 10000

\* the grade whose range holds a total given in hundredths
GradeOfTotal(total) ==
    IF total >= 9000 THEN "excellent"
    ELSE IF total >= 8000 THEN "good"
    ELSE IF total >= 7000 THEN "fair"
    ELSE IF total >= 6000 THEN "poor"
    ELSE "very poor"

\* C11: every result carries exactly one grade, chosen by non-overlapping
\* ranges of the overall score (>= 90 excellent, >= 80 good, >= 70 fair,
\* >= 60 poor, otherwise very poor), and the grade is always the one that
\* matches the reported (rounded) total.
C11_GradeMatchesReportedTotal ==
    spc = "done" =>
      /\ scores.grade \in {"excellent", "good", "fair", "poor", "very poor"}
      /\ scores.grade = GradeOfTotal(scores.total)

\* a result reporting total 80.0 with the grade of the range below 80: the
\* binary64 sum 25.0 + 15.0 + 13.8 + 12.43 + 8.77 + 5 is just under 80
C11_Witness ==
    /\ spc = "done"
    /\ scores.fps_stability = 2500 /\ scores.pts_jitter = 1500
    /\ scores.duplicate_frames = 1380 /\ scores.motion_continuity = 1243
    /\ scores.wobble = 877 /\ scores.quality = 500
    /\ scores.total = 8000
    /\ scores.grade = "fair"


\* a result whose formulas all reach the clamp at 0
C9_Witness ==
    /\ spc = "done"
    /\ fps_stats.std_fps > fps_stats.mean_fps /\ fps_stats.mean_fps > 0
    /\ pts_data.has_jitter_percentage /\ pts_data.jitter_percentage > 50000
    /\ dup_data.total_duplicate_ratio = <<2, 3>>
    /\ wobble_data.wobble_distortion_score = 100000
    /\ scores.fps_stability = 0 /\ scores.pts_jitter = 0
    /\ scores.duplicate_frames = 0 /\ scores.wobble = 0
    /\ scores.total = scores.motion_continuity + scores.quality

PerfectVideo ==
    /\ fps_stats.mean_fps > 0 /\ fps_stats.std_fps = 0
    /\ pts_data.has_jitter_percentage /\ pts_data.jitter_percentage = 0
    /\ dup_data.total_duplicate_ratio[1] = 0
    /\ motion_data.has_motion_continuity_score
    /\ motion_data.motion_continuity_score = 100000
    /\ wobble_data.wobble_distortion_score = 0

\* C10 as stated: a perfect video, whatever its resolution, has every
\* sub-score at its maximum, overall score 100 and the grade excellent.
C10_PerfectVideoScores100 ==
    (spc = "done" /\ PerfectVideo) =>
      /\ scores.fps_stability = 2500 /\ scores.pts_jitter = 1500
      /\ scores.duplicate_frames = 1500 /\ scores.motion_continuity = 2500
      /\ scores.wobble = 1000 /\ scores.quality = 1000
      /\ scores.total = 10000
      /\ scores.grade = "excellent"

\* C10 amended: a perfect video has the five analyzer sub-scores at their
\* maxima (25, 15, 15, 25, 10); the resolution sub-score is 10 only from 4K
\* up (8 from 1080p, 5 from 720p, else 3), so the overall score is 90 plus
\* the resolution sub-score, 100 exactly when the video is 4K or larger, and
\* the grade is excellent at every resolution.
C10_PerfectVideoScores90PlusResolution ==
    (spc = "done" /\ PerfectVideo) =>
      /\ scores.fps_stability = 2500 /\ scores.pts_jitter = 1500
      /\ scores.duplicate_frames = 1500 /\ scores.motion_continuity = 2500
      /\ scores.wobble = 1000
      /\ scores.quality \in {300, 500, 800, 1000}
      /\ scores.total = 9000 + scores.quality
      /\ scores.total = 10000
           <=> (resolution.width >= 3840 \/ resolution.height >= 2160)
      /\ scores.grade = "excellent"

C10_Witness ==
    /\ spc = "done"
    /\ PerfectVideo
    /\ resolution = [width |-> 640, height |-> 480]
    /\ scores.total = 9300
    /\ scores.grade = "excellent"

(***************************************************************************)
(* video_analyzer.py: analyze_fps_dynamics and analyze_frame_dynamics      *)
(***************************************************************************)
MaxStreamFrames == 100
MaxPassStride == 2

\* ---- exact fractions <<num, den>>, den > 0 ----
RECURSIVE Gcd(_, _)
Gcd(a, b) == IF b = 0 THEN a ELSE Gcd(b, a % b)
Rat(n, d) == LET g == Gcd(Abs(n), d) IN <<n \div g, d \div g>>
RatInt(n) == <<n, 1>>
RatAdd(a, b) == Rat(a[1] * b[2] + b[1] * a[2], a[2] * b[2])
RatSub(a, b) == Rat(a[1] * b[2] - b[1] * a[2], a[2] * b[2])
RatMul(a, b) == Rat(a[1] * b[1], a[2] * b[2])
RatLess(a, b) == a[1] * b[2] < b[1] * a[2]
RatLeq(a, b) == a[1] * b[2] <= b[1] * a[2]
\* int(x) of a non-negative fraction
RatFloor(a) == a[1] \div a[2]

\* sums by halves, to keep the evaluation shallow on long lists
RECURSIVE RatSumRange(_, _, _)
RatSumRange(q, lo, hi) ==
    IF lo > hi THEN RatInt(0)
    ELSE IF lo = hi THEN q[lo]
    ELSE RatAdd(RatSumRange(q, lo, (lo + hi) \div 2),
                RatSumRange(q, (lo + hi) \div 2 + 1, hi))
RatSum(q) == RatSumRange(q, 1, Len(q))

RECURSIVE SumRange(_, _, _)
SumRange(q, lo, hi) ==
    IF lo > hi THEN 0
    ELSE IF lo = hi THEN q[lo]
    ELSE SumRange(q, lo, (lo + hi) \div 2) + SumRange(q, (lo + hi) \div 2 + 1, hi)

\* sorted(keys) of a dictionary whose keys are seconds 0, 1, 2, ...
SortedKeys(S) ==
    IF S = {} THEN << >>
    ELSE LET last == CHOOSE x \in S : \A y \in S : y <= x
         IN  SelectSeq([k \in 1..(last + 1) |-> k - 1], LAMBDA x : x \in S)

\* dict[key] += 1 on a defaultdict(int)
IncrementOnce(d, key) ==
    IF key \in DOMAIN d THEN d ELSE d @@ (key :> 1)
Increment(d, key) ==
    IF key \in DOMAIN d THEN [d EXCEPT ![key] = @ + 1] ELSE d @@ (key :> 1)

\* frame_number / fps if fps > 0 else 0  (lines 311 and 735)
Timestamp(n, fps) == IF fps[1] > 0 THEN Rat(n * fps[2], fps[1]) ELSE RatInt(0)

IdlePass ==
    /\ pass_name = "none"
    /\ declared_fps = <<0, 1>>
    /\ total_frame_count = 0
    /\ stride = 1
    /\ frame_idx = 0
    /\ frames_per_second = << >>
    /\ frame_data = << >>
    /\ ppc = "idle"
    /\ pass_result = [kind |-> "none"]

\* The state after the capture is opened and its metadata read (lines
\* 292-303, 691-700).  The container's metadata is whatever the file says:
\* a declared frame rate or frame count of 0 happens with streams and
\* damaged headers.
InitPass ==
    /\ pass_name \in {"analyze_fps_dynamics", "analyze_frame_dynamics"}
    /\ declared_fps \in {<<0, 1>>, <<1, 2>>, <<1, 1>>, <<5, 2>>, <<3, 1>>, <<30, 1>>}
    /\ total_frame_count \in {0, 120}
    /\ stride \in 1..MaxPassStride
    /\ pass_name = "analyze_fps_dynamics" => stride = 1
    /\ frame_idx = 0
    /\ frames_per_second = << >>
    /\ frame_data = << >>
    /\ ppc = "loop"
    /\ pass_result = [kind |-> "none"]

\* The progress line f"... ({frame_number*100//total} %)" divides by the
\* declared frame count (lines 323-325, 742-744).
ProgressRaises(n, every, total) == n % every = 0 /\ total = 0

\* analyze_fps_dynamics, one iteration of the loop that got a frame
\* (lines 305-325)
FpsReadFrame ==
    /\ pass_name = "analyze_fps_dynamics"
    /\ ppc = "loop"
    /\ frame_idx < MaxStreamFrames
    /\ LET timestamp == Timestamp(frame_idx, declared_fps)
           second == RatFloor(timestamp)
       IN  /\ frames_per_second' = Increment(frames_per_second, second)
           /\ frame_data' = Append(frame_data,
                                   [frame_number |-> frame_idx,
                                    timestamp |-> timestamp,
                                    second |-> second])
    /\ frame_idx' = frame_idx + 1
    /\ IF ProgressRaises(frame_idx + 1, 100, total_frame_count)
         THEN /\ ppc' = "raised"
              /\ pass_result' = [kind |-> "ZeroDivisionError"]
         ELSE UNCHANGED <<ppc, pass_result>>
    /\ UNCHANGED <<pass_name, declared_fps, total_frame_count, stride>>
    /\ UNCHANGED nonPassVars

\* analyze_frame_dynamics, an iteration that skips the frame (lines 708-710)
DynSkipFrame ==
    /\ pass_name = "analyze_frame_dynamics"
    /\ ppc = "loop"
    /\ frame_idx < MaxStreamFrames
    /\ frame_idx % stride # 0
    /\ frame_idx' = frame_idx + 1
    /\ UNCHANGED <<pass_name, declared_fps, total_frame_count, stride,
                   frames_per_second, frame_data, ppc, pass_result>>
    /\ UNCHANGED nonPassVars

\* analyze_frame_dynamics, an iteration that samples the frame
\* (lines 712-744); the pixel statistics of the frame are left out
DynSampleFrame ==
    /\ pass_name = "analyze_frame_dynamics"
    /\ ppc = "loop"
    /\ frame_idx < MaxStreamFrames
    /\ frame_idx % stride = 0
    /\ frame_data' = Append(frame_data,
                            [frame_number |-> frame_idx,
                             timestamp |-> Timestamp(frame_idx, declared_fps)])
    /\ frame_idx' = frame_idx + 1
    /\ IF ProgressRaises(frame_idx + 1, 30, total_frame_count)
         THEN /\ ppc' = "raised"
              /\ pass_result' = [kind |-> "ZeroDivisionError"]
         ELSE UNCHANGED <<ppc, pass_result>>
    /\ UNCHANGED <<pass_name, declared_fps, total_frame_count, stride,
                   frames_per_second>>
    /\ UNCHANGED nonPassVars

\* np.mean, np.std (kept as its square), np.min, np.max and np.median of a
\* non-empty list of fractions
Stats(vals) ==
    LET n == Len(vals)
        mean == RatMul(RatSum(vals), <<1, n>>)
        meansq == RatMul(RatSum([k \in 1..n |-> RatMul(vals[k], vals[k])]), <<1, n>>)
        sorted == SortSeq(vals, RatLess)
    IN  [mean |-> mean,
         var |-> RatSub(meansq, RatMul(mean, mean)),
         min |-> sorted[1],
         max |-> sorted[n],
         median |-> IF n % 2 = 1 THEN sorted[(n + 1) \div 2]
                    ELSE RatMul(RatAdd(sorted[n \div 2], sorted[n \div 2 + 1]), <<1, 2>>)]

\* line 346: is_complete = (second != last_second)
IsCompleteByDuration(second, last_second, actual_duration) ==
    second # last_second \/ actual_duration[2] = 1
IsComplete(second, last_second, actual_duration) == second # last_second

\* lines 335-359: the per-second records
PerSecondFps(fps_dict, n, fps) ==
    LET all_seconds == SortedKeys(DOMAIN fps_dict)
        last_second == all_seconds[Len(all_seconds)]
        actual_duration == Timestamp(n, fps)
        actual_duration_of_last_second == RatSub(actual_duration, RatInt(last_second))
    IN  [second \in DOMAIN fps_dict |->
           LET frame_count == fps_dict[second]
               is_complete == IsComplete(second, last_second, actual_duration)
           IN  [fps |-> IF is_complete THEN RatInt(frame_count)
                        ELSE IF actual_duration_of_last_second[1] > 0
                          THEN Rat(frame_count * actual_duration_of_last_second[2],
                                   actual_duration_of_last_second[1])
                          ELSE RatInt(frame_count),
                frame_count |-> frame_count,
                is_complete_second |-> is_complete,
                actual_duration |-> IF is_complete THEN actual_duration
                                    ELSE actual_duration_of_last_second]]

\* the values of a dictionary with integer keys, in key order, that satisfy
\* a field test
ValuesInOrder(per_second, keys) == [k \in 1..Len(keys) |-> per_second[keys[k]].fps]

StatsOfAllWhenPresent(complete_seconds_fps, all_fps_values) == all_fps_values
StatsSource(complete_seconds_fps, all_fps_values) ==
    IF complete_seconds_fps # << >> THEN complete_seconds_fps ELSE all_fps_values

\* lines 361-405: overall_stats
OverallStats(per_second, fps) ==
    LET keys == SortedKeys(DOMAIN per_second)
        complete_keys == SelectSeq(keys, LAMBDA k : per_second[k].is_complete_second)
        complete_seconds_fps == ValuesInOrder(per_second, complete_keys)
        all_fps_values == ValuesInOrder(per_second, keys)
        last_second == IF keys = << >> THEN -1 ELSE keys[Len(keys)]
        \* "... if last_second else None": second 0 is falsy
        last_second_fps == IF keys # << >> /\ last_second # 0
                             THEN [kind |-> "float", value |-> per_second[last_second].fps]
                             ELSE [kind |-> "None"]
        source == StatsSource(complete_seconds_fps, all_fps_values)
    IN  IF source # << >>
          THEN LET st == Stats(source)
               IN  [declared_fps |-> fps,
                    mean_fps |-> st.mean,
                    var_fps |-> st.var,
                    min_fps |-> st.min,
                    max_fps |-> st.max,
                    median_fps |-> st.median,
                    last_second_fps |-> last_second_fps,
                    last_second_excluded |-> complete_seconds_fps # << >>,
                    complete_seconds_count |-> Len(complete_seconds_fps),
                    total_seconds_count |-> Len(all_fps_values)]
          ELSE [declared_fps |-> fps,
                mean_fps |-> RatInt(0),
                var_fps |-> RatInt(0),
                min_fps |-> RatInt(0),
                max_fps |-> RatInt(0),
                median_fps |-> RatInt(0),
                last_second_fps |-> [kind |-> "None"],
                last_second_excluded |-> FALSE,
                complete_seconds_count |-> 0,
                total_seconds_count |-> 0]

\* analyze_fps_dynamics once cap.read() reports the end of the stream
\* (lines 306-308, 327-418)
FpsFinish ==
    /\ pass_name = "analyze_fps_dynamics"
    /\ ppc = "loop"
    /\ ppc' = "done"
    /\ LET per_second_fps ==
               IF DOMAIN frames_per_second = {} THEN << >>
               ELSE PerSecondFps(frames_per_second, frame_idx, declared_fps)
       IN  pass_result' =
             [kind |-> "result",
              video_info |-> [declared_fps |-> declared_fps,
                              total_frame_count |-> total_frame_count,
                              total_seconds |-> Cardinality(DOMAIN frames_per_second)],
              per_second |-> per_second_fps,
              overall_stats |-> OverallStats(per_second_fps, declared_fps)]
    /\ UNCHANGED <<pass_name, declared_fps, total_frame_count, stride, frame_idx,
                   frames_per_second, frame_data>>
    /\ UNCHANGED nonPassVars

\* _aggregate_by_second (lines 811-854): the frame counts of the seconds
AggregateBySecond(data) ==
    LET SecondOf(k) == RatFloor(data[k].timestamp)
    IN  [second \in {SecondOf(k) : k \in 1..Len(data)} |->
           Cardinality({k \in 1..Len(data) : SecondOf(k) = second})]

\* analyze_frame_dynamics once cap.read() reports the end of the stream
\* (lines 704-706, 746-766)
DynFinish ==
    /\ pass_name = "analyze_frame_dynamics"
    /\ ppc = "loop"
    /\ ppc' = "done"
    /\ LET counts == AggregateBySecond(frame_data)
       IN  pass_result' =
             [kind |-> "result",
              video_info |-> [fps |-> declared_fps,
                              frame_count |-> total_frame_count,
                              analyzed_frames |-> Len(frame_data)],
              per_second |-> [second \in DOMAIN counts |->
                                [frame_count |-> counts[second]]]]
    /\ UNCHANGED <<pass_name, declared_fps, total_frame_count, stride, frame_idx,
                   frames_per_second, frame_data>>
    /\ UNCHANGED nonPassVars

NextPass == FpsReadFrame \/ DynSkipFrame \/ DynSampleFrame \/ FpsFinish \/ DynFinish

(***************************************************************************)
(* Claims about the per-second passes                                      *)
(***************************************************************************)
FpsPassDone == pass_name = "analyze_fps_dynamics" /\ ppc = "done"
DynPassDone == pass_name = "analyze_frame_dynamics" /\ ppc = "done"
Buckets == DOMAIN pass_result.per_second
LastBucket == CHOOSE b \in Buckets : \A c \in Buckets : c <= b
SampledFrameNumbers == {n \in 0..(frame_idx - 1) : n % stride = 0}
SecondOfFrame(n) ==
    IF declared_fps[1] > 0 THEN (n * declared_fps[2]) \div declared_fps[1] ELSE 0
\* the duration the passes compute: frames / fps, 0 without a frame rate
WholeSeconds ==
    declared_fps[1] <= 0 \/ (frame_idx * declared_fps[2]) % declared_fps[1] = 0
UnderOneSecond ==
    declared_fps[1] <= 0 \/ frame_idx * declared_fps[2] < declared_fps[1]

CompleteBuckets == {b \in Buckets : pass_result.per_second[b].is_complete_second}

\* the statistics of the FPS values of a non-empty set of buckets
StatsAreOver(st, B) ==
    \A vals \in {[k \in 1..Cardinality(B) |-> pass_result.per_second[SortedKeys(B)[k]].fps]} :
      /\ RatMul(st.mean_fps, RatInt(Len(vals))) = RatSum(vals)
      /\ \E k \in 1..Len(vals) : st.min_fps = vals[k]
      /\ \E k \in 1..Len(vals) : st.max_fps = vals[k]
      /\ \A k \in 1..Len(vals) : RatLeq(st.min_fps, vals[k]) /\ RatLeq(vals[k], st.max_fps)
      /\ 2 * Cardinality({k \in 1..Len(vals) : RatLeq(vals[k], st.median_fps)}) >= Len(vals)
      /\ 2 * Cardinality({k \in 1..Len(vals) : RatLeq(st.median_fps, vals[k])}) >= Len(vals)
      /\ RatLeq(st.min_fps, st.median_fps) /\ RatLeq(st.median_fps, st.max_fps)
      /\ RatAdd(st.var_fps, RatMul(st.mean_fps, st.mean_fps))
           = RatMul(RatSum([k \in 1..Len(vals) |-> RatMul(vals[k], vals[k])]),
                    <<1, Len(vals)>>)

\* C14: the stable statistics of analyze_fps_dynamics (mean, median, std,
\* min, max) are computed over the complete buckets only; when there is no
\* complete bucket they are computed over all buckets, so the statistics are
\* non-empty whenever at least one frame was read.
C14_StatsOverCompleteBucketsWithFallback ==
    FpsPassDone =>
      LET st == pass_result.overall_stats
      IN  /\ st.complete_seconds_count = Cardinality(CompleteBuckets)
          /\ st.total_seconds_count = Cardinality(Buckets)
          /\ CompleteBuckets # {} =>
               StatsAreOver(st, CompleteBuckets) /\ st.last_second_excluded
          /\ (CompleteBuckets = {} /\ Buckets # {}) =>
               StatsAreOver(st, Buckets) /\ ~st.last_second_excluded
          /\ frame_idx >= 1 =>
               st.total_seconds_count >= 1 /\ RatLess(RatInt(0), st.mean_fps)

\* both cases: a clip of 2 frames at 30 fps has no complete bucket and gets
\* the statistics of its only bucket
C14_Witness ==
    /\ FpsPassDone
    /\ declared_fps = <<30, 1>>
    /\ frame_idx = 2
    /\ CompleteBuckets = {}
    /\ pass_result.overall_stats.total_seconds_count = 1
    /\ pass_result.overall_stats.mean_fps = <<30, 1>>
    /\ ~pass_result.overall_stats.last_second_excluded

\* C18: no pass raises a division-by-zero error on degenerate metadata: for
\* every declared frame rate and declared frame count, 0 included, and any
\* number of decoded frames, analyze_fps_dynamics and analyze_frame_dynamics
\* run to completion with a safe default (timestamp 0 without a frame rate)
\* in place of the quotient.
C18_NoDivisionByZeroOnDegenerateMetadata ==
    /\ pass_result.kind # "ZeroDivisionError"
    /\ ppc # "raised"
    /\ declared_fps[1] = 0 =>
          \A k \in 1..Len(frame_data) : frame_data[k].timestamp = <<0, 1>>

\* a container that declares 0 frames and decodes to 100: the progress line
\* after the 100th frame of analyze_fps_dynamics divides by the declared
\* count, after the frames were bucketed with the guarded timestamps
C18_Witness ==
    /\ pass_name = "analyze_fps_dynamics"
    /\ total_frame_count = 0
    /\ frame_idx = 100
    /\ Len(frame_data) = 100
    /\ ppc = "raised"
    /\ pass_result = [kind |-> "ZeroDivisionError"]

\* C29: whenever analyze_fps_dynamics read at least one frame the last
\* bucket is still reported individually: overall_stats.last_second_fps is
\* the fps of the last per-second bucket, also when the video has a single
\* bucket (second 0); it is None only when no frame was read.
C29_LastSecondFpsReported ==
    FpsPassDone =>
      LET reported == pass_result.overall_stats.last_second_fps
      IN  IF frame_idx >= 1
            THEN /\ reported.kind = "float"
                 /\ reported.value = pass_result.per_second[LastBucket].fps
            ELSE reported.kind = "None"

\* 2 frames at 30 fps: the only bucket is second 0, its fps of 30 is in the
\* per-second table and the overall statistics report None for it
C29_Witness ==
    /\ FpsPassDone
    /\ declared_fps = <<30, 1>>
    /\ frame_idx = 2
    /\ Buckets = {0}
    /\ pass_result.per_second[0].fps = <<30, 1>>
    /\ pass_result.overall_stats.last_second_fps = [kind |-> "None"]

(***************************************************************************)
(* video_analyzer.py: print_fps_dynamics, outlier detection                *)
(***************************************************************************)
MaxSeries == 7

IdleOutlier ==
    /\ fps_array = << >>
    /\ opc = "idle"
    /\ outlier_report = [kind |-> "none"]

\* The result handed to print_fps_dynamics: the FPS of its complete seconds
\* (frame counts), with overall_stats computed from them.
InitOutlier ==
    /\ fps_array \in SeqsUpTo({20, 21, 40}, MaxSeries)
    /\ opc = "call"
    /\ outlier_report = [kind |-> "none"]

\* np.percentile(a, 25 * quarter): linear interpolation between the order
\* statistics around position quarter / 4 * (n - 1)
Percentile(vals, quarter) ==
    LET sorted == SortSeq(vals, RatLess)
        n == Len(vals)
        lo == (quarter * (n - 1)) \div 4
        frac == <<(quarter * (n - 1)) % 4, 4>>
    IN  IF frac[1] = 0 THEN sorted[lo + 1]
        ELSE RatAdd(sorted[lo + 1],
                    RatMul(frac, RatSub(sorted[lo + 2], sorted[lo + 1])))

\* lines 493-496: fps < q25 - 1.5 * iqr or fps > q75 + 1.5 * iqr
OutsideIqr(fps, q25, q75) ==
    LET iqr == RatSub(q75, q25)
    IN  \/ RatLess(fps, RatSub(q25, RatMul(<<3, 2>>, iqr)))
        \/ RatLess(RatAdd(q75, RatMul(<<3, 2>>, iqr)), fps)

\* lines 498-501: fps < mean - 2 * std or fps > mean + 2 * std, with std
\* given by its square
OutsideThreeStd(fps, mean, var) ==
    LET d == RatSub(fps, mean)
    IN  RatLess(RatMul(<<9, 1>>, var), RatMul(d, d))
OutsideTwoStd(fps, mean, var) ==
    LET d == RatSub(fps, mean)
    IN  RatLess(RatMul(<<4, 1>>, var), RatMul(d, d))

\* print_fps_dynamics, lines 454-508
PrintFpsDynamics ==
    /\ opc = "call"
    /\ opc' = "done"
    /\ IF fps_array = << >>
         THEN outlier_report' = [kind |-> "skipped"]
         ELSE \E vals \in {[k \in 1..Len(fps_array) |-> RatInt(fps_array[k])]} :
              \E st \in {Stats(vals)}, q25 \in {Percentile(vals, 1)},
                 q75 \in {Percentile(vals, 3)} :
                LET iqr == RatSub(q75, q25)
                    rule == IF RatLess(RatInt(0), iqr) THEN "iqr" ELSE "std"
                    Out(fps) == IF rule = "iqr" THEN OutsideIqr(fps, q25, q75)
                                ELSE OutsideTwoStd(fps, st.mean, st.var)
                IN  outlier_report' =
                      [kind |-> "report",
                       rule |-> rule,
                       q25 |-> q25,
                       q75 |-> q75,
                       iqr |-> iqr,
                       mean_fps |-> st.mean,
                       var_fps |-> st.var,
                       outliers |-> SelectSeq(fps_array, LAMBDA x : Out(RatInt(x)))]
    /\ UNCHANGED fps_array
    /\ UNCHANGED nonOutlierVars

NextOutlier == PrintFpsDynamics

(***************************************************************************)
(* Claims about the outlier report                                         *)
(***************************************************************************)
Occurrences(q, x) == Cardinality({k \in 1..Len(q) : q[k] = x})

\* one second with double the frame count c of all the other seconds
OneDoubleSecond(c) ==
    /\ Len(fps_array) >= 2
    /\ Occurrences(fps_array, 2 * c) = 1
    /\ Occurrences(fps_array, c) = Len(fps_array) - 1

Flagged(x) == \E k \in 1..Len(outlier_report.outliers) : outlier_report.outliers[k] = x

\* C15 as stated: the interquartile-range rule is used when the IQR is
\* non-zero and the mean +/- 2*std rule when it is zero; with zero IQR and
\* non-zero std the report still flags one second whose frame count is double
\* that of all the other seconds, for every length of the series.
C15_DoubleSecondAlwaysFlagged ==
    (opc = "done" /\ fps_array # << >>) =>
      /\ outlier_report.rule = (IF outlier_report.iqr[1] > 0 THEN "iqr" ELSE "std")
      /\ \A c \in {20} :
           (OneDoubleSecond(c) /\ outlier_report.iqr[1] = 0
              /\ outlier_report.var_fps[1] > 0)
             => Flagged(2 * c)

\* C15 amended: the rules are chosen as stated; a series with one doubled
\* second has zero IQR only from 5 seconds on; the doubled second is the one
\* outlier flagged in every series of 6 or more seconds, and in a series of
\* exactly 5 seconds it equals the upper bound mean + 2*std and is not
\* flagged.
C15_DoubleSecondFlaggedFromSixSeconds ==
    (opc = "done" /\ fps_array # << >>) =>
      /\ outlier_report.rule = (IF outlier_report.iqr[1] > 0 THEN "iqr" ELSE "std")
      /\ \A c \in {20} :
           (OneDoubleSecond(c) /\ outlier_report.iqr[1] = 0
              /\ outlier_report.var_fps[1] > 0)
             => /\ Len(fps_array) >= 5
                /\ Len(fps_array) >= 6 => outlier_report.outliers = <<2 * c>>
                /\ Len(fps_array) = 5 =>
                     /\ outlier_report.outliers = << >>
                     /\ LET d == RatSub(RatInt(2 * c), outlier_report.mean_fps)
                        IN  RatMul(d, d) = RatMul(<<4, 1>>, outlier_report.var_fps)

\* six seconds, the doubled one flagged by the mean +/- 2*std rule
C15_Witness ==
    /\ opc = "done"
    /\ fps_array = <<20, 20, 40, 20, 20, 20>>
    /\ outlier_report.rule = "std"
    /\ outlier_report.iqr = <<0, 1>>
    /\ outlier_report.outliers = <<40>>

(***************************************************************************)
(* video_analyzer.py: analyze_motion_quality, the jitter pass and the      *)
(* motion continuity pass (the duplicate pass is modelled above)           *)
(***************************************************************************)
MaxPtsFrames == 4
MaxQualityStride == 2
MaxContinuityFrames == 9
PtsDeltas == {33, 50}
FlowMagnitudes == {0, 1, 3}

PtsOf(deltas) == [k \in 1..(Len(deltas) + 1) |-> SumSeq(SubSeq(deltas, 1, k - 1))]

IdleQuality ==
    /\ video_pts = << >>
    /\ mq_fps = 0
    /\ mq_stride = 1
    /\ qpc = "idle"
    /\ grab_idx = 0
    /\ pts_list = << >>
    /\ frame_times = << >>
    /\ pts_result = [kind |-> "none"]
    /\ read_idx = 0
    /\ has_prev_gray = FALSE
    /\ motion_magnitudes = << >>
    /\ jerk_values = << >>
    /\ continuity_result = [kind |-> "none"]

\* The state when _analyze_pts_jitter is entered (lines 1058-1070): a video
\* of 0..MaxPtsFrames frames
InitQuality ==
    /\ video_pts \in {<< >>} \cup {PtsOf(ds) : ds \in SeqsUpTo(PtsDeltas, MaxPtsFrames - 1)}
    /\ mq_fps \in {0, 30}
    /\ mq_stride \in 1..MaxQualityStride
    /\ qpc = "jitter"
    /\ grab_idx = 0
    /\ pts_list = << >>
    /\ frame_times = << >>
    /\ pts_result = [kind |-> "none"]
    /\ read_idx = 0
    /\ has_prev_gray = FALSE
    /\ motion_magnitudes = << >>
    /\ jerk_values = << >>
    /\ continuity_result = [kind |-> "none"]

\* line 1131: if frame_number > 0
DeltaRecordedAfterSecond(n) == n > 1
DeltaRecorded(n) == n > 0

\* _analyze_pts_jitter, one iteration whose cap.grab() succeeds
\* (lines 1122-1140)
JitterGrab ==
    /\ qpc = "jitter"
    /\ grab_idx < Len(video_pts)
    /\ LET pts == video_pts[grab_idx + 1]
       IN  /\ frame_times' = IF DeltaRecorded(grab_idx)
                               THEN Append(frame_times, pts - pts_list[Len(pts_list)])
                               ELSE frame_times
           /\ pts_list' = Append(pts_list, pts)
    /\ grab_idx' = grab_idx + 1
    /\ UNCHANGED <<video_pts, mq_fps, mq_stride, qpc, pts_result, read_idx,
                   has_prev_gray, motion_magnitudes, jerk_values,
                   continuity_result>>
    /\ UNCHANGED nonQualityVars

\* floor of the square root
RECURSIVE IsqrtIn(_, _, _)
IsqrtIn(n, lo, hi) ==
    IF lo >= hi THEN lo
    ELSE LET mid == (lo + hi + 1) \div 2
         IN  IF mid * mid <= n THEN IsqrtIn(n, mid, hi) ELSE IsqrtIn(n, lo, mid - 1)
Isqrt(n) == IsqrtIn(n, 0, 46340)

\* lines 1142-1169: the dictionary of the jitter pass.  Times are in ms; the
\* standard deviation is kept as its square; jitter_percentage is in
\* hundredths of a percent, rounded down.
PtsJitterResult(times, fps) ==
    LET expected_delta == IF fps > 0 THEN Rat(1000, fps) ELSE RatInt(0)
    IN  IF Len(times) = 0
          THEN [effective_fps |-> RatInt(fps),
                pts_jitter_var |-> RatInt(0),
                pts_jitter_max |-> RatInt(0),
                expected_delta |-> expected_delta,
                mean_delta |-> RatInt(0)]
          ELSE LET vals == [k \in 1..Len(times) |-> RatInt(times[k])]
                   st == Stats(vals)
                   devs == [k \in 1..Len(times) |->
                              LET d == RatSub(vals[k], expected_delta)
                              IN  IF d[1] < 0 THEN <<-d[1], d[2]>> ELSE d]
               IN  [effective_fps |-> IF st.mean[1] > 0
                                        THEN Rat(1000 * st.mean[2], st.mean[1])
                                        ELSE RatInt(0),
                    declared_fps |-> RatInt(fps),
                    pts_jitter_var |-> st.var,
                    pts_jitter_max |-> SortSeq(devs, RatLess)[Len(devs)],
                    expected_delta |-> expected_delta,
                    mean_delta |-> st.mean,
                    jitter_percentage |->
                        IF fps > 0
                          THEN Isqrt((st.var[1] * fps * fps * 100) \div st.var[2])
                          ELSE 0]

\* _analyze_pts_jitter at the end of the stream, and the rewind of line 1073
JitterReturn ==
    /\ qpc = "jitter"
    /\ grab_idx = Len(video_pts)
    /\ pts_result' = PtsJitterResult(frame_times, mq_fps)
    /\ qpc' = "continuity"
    /\ UNCHANGED <<video_pts, mq_fps, mq_stride, grab_idx, pts_list, frame_times,
                   read_idx, has_prev_gray, motion_magnitudes, jerk_values,
                   continuity_result>>
    /\ UNCHANGED nonQualityVars

\* _analyze_motion_continuity, an iteration that skips the frame
\* (lines 1291-1293)
ContinuitySkip ==
    /\ qpc = "continuity"
    /\ read_idx < Len(video_pts)
    /\ read_idx % mq_stride # 0
    /\ read_idx' = read_idx + 1
    /\ UNCHANGED <<video_pts, mq_fps, mq_stride, qpc, grab_idx, pts_list,
                   frame_times, pts_result, has_prev_gray, motion_magnitudes,
                   jerk_values, continuity_result>>
    /\ UNCHANGED nonQualityVars

\* line 1311: jerk = |m[-1] - 2 * m[-2] + m[-3]|
JerkOfFirstThree(m) == Abs(m[3] - 2 * m[2] + m[1])
Jerk(m) == Abs(m[Len(m)] - 2 * m[Len(m) - 1] + m[Len(m) - 2])

\* _analyze_motion_continuity, an iteration that samples the frame
\* (lines 1295-1318); the mean optical-flow magnitude between the previous
\* sampled frame and this one is whatever calcOpticalFlowFarneback finds
ContinuitySample ==
    /\ qpc = "continuity"
    /\ read_idx < Len(video_pts)
    /\ read_idx % mq_stride = 0
    /\ IF has_prev_gray
         THEN \E mean_magnitude \in FlowMagnitudes :
                \E m \in {Append(motion_magnitudes, mean_magnitude)} :
                  /\ motion_magnitudes' = m
                  /\ jerk_values' = IF Len(m) >= 3 THEN Append(jerk_values, Jerk(m))
                                    ELSE jerk_values
         ELSE UNCHANGED <<motion_magnitudes, jerk_values>>
    /\ has_prev_gray' = TRUE
    /\ read_idx' = read_idx + 1
    /\ UNCHANGED <<video_pts, mq_fps, mq_stride, qpc, grab_idx, pts_list,
                   frame_times, pts_result, continuity_result>>
    /\ UNCHANGED nonQualityVars

\* x > mean + 2 * std, with std given by its square.  For the magnitudes of
\* FlowMagnitudes the exact comparison and the rounded one of numpy
\* (JerkPeaks below) count the same samples.
AboveTwoStd(x, mean, var) ==
    LET d == RatSub(x, mean)
    IN  d[1] > 0 /\ RatLess(RatMul(<<4, 1>>, var), RatMul(d, d))

RatMin(a, b) == IF RatLeq(a, b) THEN a ELSE b

\* line 1343: min(100.0, (ratio * 50 + mean_jerk / mean_motion * 50)
\* if mean_motion > 0 else 0.0)
JerkinessScoreUncapped(jerk_peak_ratio, mean_jerk, mean_motion) ==
    IF mean_motion[1] > 0
      THEN RatAdd(RatMul(jerk_peak_ratio, RatInt(50)),
                  RatMul(RatMul(mean_jerk, <<mean_motion[2], mean_motion[1]>>),
                         RatInt(50)))
      ELSE RatInt(0)
JerkinessScore(jerk_peak_ratio, mean_jerk, mean_motion) ==
    RatMin(RatInt(100),
           IF mean_motion[1] > 0
             THEN RatAdd(RatMul(jerk_peak_ratio, RatInt(50)),
                         RatMul(RatMul(mean_jerk, <<mean_motion[2], mean_motion[1]>>),
                                RatInt(50)))
             ELSE RatInt(0))

\* lines 1321-1356: the dictionary of the continuity pass
MotionContinuityResult(magnitudes, jerks) ==
    IF Len(magnitudes) = 0
      THEN [mean_motion_magnitude |-> RatInt(0),
            motion_var |-> RatInt(0),
            mean_jerk |-> RatInt(0),
            jerk_peak_ratio |-> RatInt(0),
            jerkiness_score |-> RatInt(0)]
      ELSE LET mst == Stats([k \in 1..Len(magnitudes) |-> RatInt(magnitudes[k])])
               jst == Stats([k \in 1..Len(jerks) |-> RatInt(jerks[k])])
               jerk_peaks == Cardinality({k \in 1..Len(jerks) :
                                            AboveTwoStd(RatInt(jerks[k]), jst.mean, jst.var)})
               jerk_peak_ratio == IF Len(jerks) > 0 THEN Rat(jerk_peaks, Len(jerks))
                                  ELSE RatInt(0)
               mean_jerk == IF Len(jerks) > 0 THEN jst.mean ELSE RatInt(0)
               jerkiness_score ==
                   IF Len(jerks) > 0
                     THEN JerkinessScore(jerk_peak_ratio, mean_jerk, mst.mean)
                     ELSE RatInt(0)
           IN  [mean_motion_magnitude |-> mst.mean,
                motion_var |-> mst.var,
                mean_jerk |-> mean_jerk,
                jerk_peak_ratio |-> jerk_peak_ratio,
                jerkiness_score |-> jerkiness_score,
                motion_continuity_score |-> RatSub(RatInt(100), jerkiness_score)]

\* _analyze_motion_continuity at the end of the stream (lines 1287-1289,
\* 1319-1356); analyze_motion_quality then returns both dictionaries
ContinuityReturn ==
    /\ qpc = "continuity"
    /\ read_idx = Len(video_pts)
    /\ continuity_result' = MotionContinuityResult(motion_magnitudes, jerk_values)
    /\ qpc' = "done"
    /\ UNCHANGED <<video_pts, mq_fps, mq_stride, grab_idx, pts_list, frame_times,
                   pts_result, read_idx, has_prev_gray, motion_magnitudes,
                   jerk_values>>
    /\ UNCHANGED nonQualityVars

NextQuality ==
    JitterGrab \/ JitterReturn \/ ContinuitySkip \/ ContinuitySample \/ ContinuityReturn

\* The state in which analyze_motion_quality calls _analyze_motion_continuity
\* (lines 1071-1088): the jitter pass is over and the capture is rewound.  The
\* video has 0..MaxContinuityFrames frames, 33 ms apart.
InitContinuity ==
    /\ \E F \in 0..MaxContinuityFrames :
         /\ video_pts = [k \in 1..F |-> 33 * (k - 1)]
         /\ frame_times = [k \in 1..(F - 1) |-> 33]
    /\ mq_fps = 30
    /\ mq_stride \in 1..MaxQualityStride
    /\ qpc = "continuity"
    /\ grab_idx = Len(video_pts)
    /\ pts_list = video_pts
    /\ pts_result = PtsJitterResult(frame_times, mq_fps)
    /\ read_idx = 0
    /\ has_prev_gray = FALSE
    /\ motion_magnitudes = << >>
    /\ jerk_values = << >>
    /\ continuity_result = [kind |-> "none"]

NextContinuity == ContinuitySkip \/ ContinuitySample \/ ContinuityReturn

\* what calculate_overall_score reads from the two dictionaries with
\* dict.get (batch_analyze.py lines 113 and 131): the key may be absent
PtsDataOf(result) ==
    IF "jitter_percentage" \in DOMAIN result
      THEN [has_jitter_percentage |-> TRUE,
            jitter_percentage |-> 10 * result.jitter_percentage]
      ELSE [has_jitter_percentage |-> FALSE, jitter_percentage |-> 0]

MotionDataOf(result) ==
    IF "motion_continuity_score" \in DOMAIN result
      THEN [has_motion_continuity_score |-> TRUE,
            motion_continuity_score |->
                RatFloor(RatMul(result.motion_continuity_score, RatInt(1000)))]
      ELSE [has_motion_continuity_score |-> FALSE, motion_continuity_score |-> 0]

(***************************************************************************)
(* Claims about the jitter and continuity passes                           *)
(***************************************************************************)
SampledFrames == Cardinality({n \in 0..(Len(video_pts) - 1) : n % mq_stride = 0})

\* C16: every result of the motion continuity analyzer satisfies continuity
\* score = 100 - jerkiness score, including the insufficient-frames cases:
\* with fewer than 2 sampled frames (no frame pair) or fewer than 3
\* magnitudes (no jerk sample) it returns jerkiness 0 and continuity 100, and
\* the aggregator then gives the full 25-point motion continuity sub-score.
C16_ContinuityIsHundredMinusJerkiness ==
    qpc = "done" =>
      /\ "motion_continuity_score" \in DOMAIN continuity_result
      /\ continuity_result.motion_continuity_score
           = RatSub(RatInt(100), continuity_result.jerkiness_score)
      /\ (SampledFrames < 2 \/ Len(motion_magnitudes) < 3) =>
           /\ continuity_result.jerkiness_score = RatInt(0)
           /\ continuity_result.motion_continuity_score = RatInt(100)
           /\ MotionContinuityScore(MotionDataOf(continuity_result)) = 2500

\* a one-frame video: the result has no continuity score and the aggregator
\* gives 0 of the 25 points
C16_Witness ==
    /\ qpc = "done"
    /\ Len(video_pts) = 1
    /\ SampledFrames = 1
    /\ continuity_result.jerkiness_score = RatInt(0)
    /\ "motion_continuity_score" \notin DOMAIN continuity_result
    /\ MotionContinuityScore(MotionDataOf(continuity_result)) = 0

InPercent(x) == RatLeq(RatInt(0), x) /\ RatLeq(x, RatInt(100))

\* C23: for every sequence of per-pair mean flow magnitudes the jerkiness
\* score min(100, 50 * spike_ratio + 50 * mean_jerk / mean_motion) lies in
\* [0, 100] and so does the continuity score; when the mean motion is zero
\* nothing is divided and the score is 50 * spike_ratio, the second term
\* being zero.
C23_JerkinessInRange ==
    qpc = "done" =>
      LET r == continuity_result
      IN  /\ InPercent(r.jerkiness_score)
          /\ Len(motion_magnitudes) > 0 =>
                /\ "motion_continuity_score" \in DOMAIN r
                /\ InPercent(r.motion_continuity_score)
          /\ InPercent(<<MotionDataOf(r).motion_continuity_score, 1000>>)
          /\ (Len(jerk_values) > 0 /\ r.mean_motion_magnitude[1] > 0) =>
                r.jerkiness_score =
                  RatMin(RatInt(100),
                         RatAdd(RatMul(RatInt(50), r.jerk_peak_ratio),
                                Rat(50 * r.mean_jerk[1] * r.mean_motion_magnitude[2],
                                    r.mean_jerk[2] * r.mean_motion_magnitude[1])))
          /\ (Len(jerk_values) > 0 /\ r.mean_motion_magnitude[1] = 0) =>
                r.jerkiness_score = RatMul(RatInt(50), r.jerk_peak_ratio)

\* six jerk samples of which one is a spike, over a moving scene: both terms
\* of the score are positive and the cap is reached
C23_Witness ==
    /\ qpc = "done"
    /\ Len(jerk_values) = 6
    /\ continuity_result.jerk_peak_ratio = <<1, 6>>
    /\ continuity_result.mean_motion_magnitude[1] > 0
    /\ continuity_result.jerkiness_score = RatInt(100)
    /\ continuity_result.motion_continuity_score = RatInt(0)

\* the last 3 values of a history
LastThree(h) == IF Len(h) <= 3 THEN h ELSE SubSeq(h, Len(h) - 2, Len(h))

\* the jerk samples a rolling history of the last 3 magnitudes produces
RECURSIVE RollingJerksFrom(_, _, _, _)
RollingJerksFrom(m, t, history, out) ==
    IF t > Len(m) THEN out
    ELSE LET h == LastThree(Append(history, m[t]))
         IN  RollingJerksFrom(m, t + 1, h,
                              IF Len(h) = 3
                                THEN Append(out, Abs(h[3] - 2 * h[2] + h[1]))
                                ELSE out)
RollingJerks(m) == RollingJerksFrom(m, 1, << >>, << >>)

\* C24: the jerk sequence of _analyze_motion_continuity, which keeps the
\* full list of magnitudes, is what a rolling history of the last 3 mean
\* flow magnitudes produces: for P frame pairs it has max(0, P - 2) samples,
\* and the sample of pair t is |m_t - 2 * m_(t-1) + m_(t-2)|.
C24_JerksAreRollingSecondDifferences ==
    qpc \in {"continuity", "done"} =>
      LET P == Len(motion_magnitudes)
      IN  /\ Len(jerk_values) = Max(0, P - 2)
          /\ \A t \in 3..P :
                jerk_values[t - 2] =
                  Abs(motion_magnitudes[t] - 2 * motion_magnitudes[t - 1]
                        + motion_magnitudes[t - 2])
          /\ jerk_values = RollingJerks(motion_magnitudes)

\* 8 pairs, 6 jerk samples, the early magnitudes differing from the late
C24_Witness ==
    /\ qpc = "done"
    /\ motion_magnitudes = <<0, 1, 3, 3, 0, 1, 1, 3>>
    /\ jerk_values = <<1, 2, 3, 4, 1, 2>>

JitterPassOver == qpc \in {"continuity", "done"}

\* the fields of the result of a video with at least 2 frames
NormalJitterFields ==
    {"effective_fps", "declared_fps", "pts_jitter_var", "pts_jitter_max",
     "expected_delta", "mean_delta", "jitter_percentage"}

\* C17: for a video with fewer than 2 frames the jitter analyzer returns a
\* zero-valued result: jitter std 0, max jitter 0 and jitter percentage 0,
\* with the same fields as a normal result, so that calculate_overall_score
\* gives it the jitter sub-score of a video with 0% jitter.
C17_ShortVideoJitterResultIsZeroValued ==
    (JitterPassOver /\ Len(video_pts) < 2) =>
      /\ pts_result.pts_jitter_var = RatInt(0)
      /\ pts_result.pts_jitter_max = RatInt(0)
      /\ DOMAIN pts_result = NormalJitterFields
      /\ pts_result.jitter_percentage = 0
      /\ PtsJitterScore(PtsDataOf(pts_result))
           = PtsJitterScore([has_jitter_percentage |-> TRUE, jitter_percentage |-> 0])

\* a one-frame video: the result has no jitter_percentage and the aggregator
\* gives 0 of the 15 points
C17_Witness ==
    /\ JitterPassOver
    /\ Len(video_pts) = 1
    /\ pts_result.pts_jitter_var = RatInt(0)
    /\ "jitter_percentage" \notin DOMAIN pts_result
    /\ "declared_fps" \notin DOMAIN pts_result
    /\ PtsJitterScore(PtsDataOf(pts_result)) = 0

\* C20: the jitter pass consumes the timestamp of every frame of the video,
\* independently of the stride: for a video of F >= 1 frames it forms exactly
\* F - 1 inter-frame deltas whatever sample_rate the pixel-based passes use.
C20_JitterUsesEveryFrame ==
    /\ JitterPassOver =>
         /\ pts_list = video_pts
         /\ Len(video_pts) >= 1 => Len(frame_times) = Len(video_pts) - 1
         /\ \A k \in 1..Len(frame_times) :
              frame_times[k] = video_pts[k + 1] - video_pts[k]
    /\ qpc = "done" =>
         Len(motion_magnitudes) = (IF SampledFrames >= 1 THEN SampledFrames - 1 ELSE 0)

\* four frames, stride 2: three deltas, but one sampled frame pair
C20_Witness ==
    /\ qpc = "done"
    /\ Len(video_pts) = 4
    /\ mq_stride = 2
    /\ Len(frame_times) = 3
    /\ Len(motion_magnitudes) = 1
    /\ "jitter_percentage" \in DOMAIN pts_result

(***************************************************************************)
(* batch_analyze.py: analyze_video and main, the sequential batch run      *)
(***************************************************************************)
MaxVideoFiles == 3

\* File names as their lowercase words ("kling_03.mp4" is <<"kling", "03">>),
\* in the order sorted() gives them
VideoNames ==
    << <<"clip", "01">>, <<"jimeng", "02">>, <<"kling", "03">>,
       <<"pix", "04">>, <<"runway", "05">> >>

\* What can ail a file: nothing; cv2 cannot open it (ValueError, lines
\* 286-288 of video_analyzer.py); its container declares 0 frames, so that a
\* pass raises ZeroDivisionError
Faults == {"none", "cannot_open", "zero_frame_count"}

\* MODEL_KEYWORDS (lines 27-34), in the order of the dictionary
MODEL_KEYWORDS ==
    << [model |-> "Jimeng", keywords |-> {"jimeng", "jim"}],
       [model |-> "Kling", keywords |-> {"kling", "keling"}],
       [model |-> "Gen-2", keywords |-> {"gen2", "gen-2", "runway"}],
       [model |-> "PixVerse", keywords |-> {"pixverse", "pix"}],
       [model |-> "Pika", keywords |-> {"pika"}],
       [model |-> "Haiper", keywords |-> {"haiper", "hiper"}] >>

\* detect_model_from_filename (lines 37-44): the first model one of whose
\* keywords occurs in the name
detect_model_from_filename(name) ==
    LET hits == {k \in 1..Len(MODEL_KEYWORDS) :
                   \E t \in 1..Len(name) : name[t] \in MODEL_KEYWORDS[k].keywords}
    IN  IF hits = {} THEN "unknown"
        ELSE MODEL_KEYWORDS[CHOOSE k \in hits : \A j \in hits : k <= j].model

\* str(video_path): the file under base_dir
FilePath(name) == <<"Video Example", name>>

\* str(e) of the exception the analysis of a file raises
ErrorText(fault) ==
    IF fault = "cannot_open" THEN "cannot open video file"
    ELSE "integer division or modulo by zero"

IdleMain ==
    /\ video_files = << >>
    /\ file_i = 0
    /\ main_results = << >>
    /\ success_count = 0
    /\ error_count = 0
    /\ main_pc = "idle"

\* main after the directory is listed (lines 403-415): up to MaxVideoFiles
\* distinct files, sorted
InitMain ==
    /\ \E chosen \in SUBSET (1..MaxVideoFiles) :
         \E fault \in [chosen -> Faults] :
           video_files =
             LET idx == SortedKeys(chosen)
             IN  [k \in 1..Len(idx) |->
                    [name |-> VideoNames[idx[k]], fault |-> fault[idx[k]]]]
    /\ file_i = 0
    /\ main_results = << >>
    /\ success_count = 0
    /\ error_count = 0
    /\ main_pc = "start"

\* analyze_video (lines 47-95): the whole analysis runs inside try, and the
\* handler of except Exception returns an error record; nothing is raised
\* to the caller
AnalyzeVideo(f) ==
    IF f.fault = "none"
      THEN [raised |-> FALSE,
            value |-> [filename |-> f.name,
                       filepath |-> FilePath(f.name),
                       model |-> detect_model_from_filename(f.name),
                       overall_score |-> "scores"]]
      ELSE [raised |-> FALSE,
            value |-> [filename |-> f.name,
                       filepath |-> FilePath(f.name),
                       model |-> detect_model_from_filename(f.name),
                       error |-> ErrorText(f.fault)]]

\* main, no file found (lines 417-419)
MainNoFiles ==
    /\ main_pc = "start"
    /\ video_files = << >>
    /\ main_pc' = "returned"
    /\ UNCHANGED <<video_files, file_i, main_results, success_count, error_count>>
    /\ UNCHANGED nonMainVars

\* main, before the loop (lines 421-427)
MainBegin ==
    /\ main_pc = "start"
    /\ video_files # << >>
    /\ main_results' = << >>
    /\ success_count' = 0
    /\ error_count' = 0
    /\ main_pc' = "loop"
    /\ UNCHANGED <<video_files, file_i>>
    /\ UNCHANGED nonMainVars

\* main, one iteration of the loop (lines 429-446)
MainIterate ==
    /\ main_pc = "loop"
    /\ file_i < Len(video_files)
    /\ LET video_path == video_files[file_i + 1]
       IN  \E call \in {AnalyzeVideo(video_path)} :
             IF ~call.raised
               THEN /\ main_results' = Append(main_results, call.value)
                    /\ success_count' = success_count + 1
                    /\ UNCHANGED error_count
               ELSE /\ main_results' =
                         Append(main_results,
                                [filename |-> video_path.name,
                                 filepath |-> FilePath(video_path.name),
                                 model |-> detect_model_from_filename(video_path.name),
                                 error |-> call.error])
                    /\ error_count' = error_count + 1
                    /\ UNCHANGED success_count
    /\ file_i' = file_i + 1
    /\ UNCHANGED <<video_files, main_pc>>
    /\ UNCHANGED nonMainVars

\* main, the summary line after the loop (lines 448-451)
MainReport ==
    /\ main_pc = "loop"
    /\ file_i = Len(video_files)
    /\ main_pc' = "report"
    /\ UNCHANGED <<video_files, file_i, main_results, success_count, error_count>>
    /\ UNCHANGED nonMainVars

NextMain == MainNoFiles \/ MainBegin \/ MainIterate \/ MainReport

(***************************************************************************)
(* Claims about the sequential batch run                                   *)
(***************************************************************************)
IsErrorRecord(r) == "error" \in DOMAIN r
ErrorRecords == {k \in 1..Len(main_results) : IsErrorRecord(main_results[k])}

\* C19: main produces exactly one outcome per file and accumulates successes
\* and failures separately: after the run, success count + failure count =
\* number of files, and the failure count equals the number of outcomes that
\* are error records, each carrying the file's name and path.
C19_FailureCountIsNumberOfErrorRecords ==
    main_pc = "report" =>
      /\ Len(main_results) = Len(video_files)
      /\ \A k \in 1..Len(video_files) :
           /\ main_results[k].filename = video_files[k].name
           /\ main_results[k].filepath = FilePath(video_files[k].name)
      /\ success_count + error_count = Len(video_files)
      /\ error_count = Cardinality(ErrorRecords)

\* three files of which the second cannot be opened: its outcome is an error
\* record with its name and path, and the summary counts 3 successes
C19_Witness ==
    /\ main_pc = "report"
    /\ Len(video_files) = 3
    /\ video_files[2].fault = "cannot_open"
    /\ ErrorRecords = {2}
    /\ main_results[2].filename = video_files[2].name
    /\ main_results[2].filepath = FilePath(video_files[2].name)
    /\ success_count = 3
    /\ error_count = 0

(***************************************************************************)
(* video_analyser/analyzer.py: VideoAnalyzer._calculate_quality_scores     *)
(***************************************************************************)
MaxEvents == 3

RatMax(a, b) == IF RatLeq(a, b) THEN b ELSE a

\* The defaults of the dataclass (lines 52-56)
DefaultQualityScores ==
    [fps_quality_score |-> RatInt(100),
     motion_quality_score |-> RatInt(100),
     duplicate_quality_score |-> RatInt(100),
     wobble_quality_score |-> RatInt(100),
     overall_quality_score |-> RatInt(100)]

\* A VideoAnalysisResult (lines 23-56) as far as the scores read it; the
\* lists are kept as their lengths
VideoAnalysisResult(total, variance, drops, dups, dup_pct, discs, wobbles) ==
    [total_frames |-> total,
     fps_variance |-> variance,
     fps_drops |-> drops,
     duplicate_frames |-> dups,
     duplicate_percentage |-> dup_pct,
     motion_discontinuities |-> discs,
     wobble_frames |-> wobbles,
     quality |-> DefaultQualityScores]

IdleScores ==
    /\ qs_result = [kind |-> "none"]
    /\ qs_pc = "idle"

\* The result handed to _calculate_quality_scores.  total_frames is what the
\* container declares, so it may be 0 or smaller than a count; the variance
\* of the frame intervals is in seconds squared; duplicate_percentage is
\* either what _analyze_frames computed (line 235) or the default 0.0 of a
\* result built directly (line 39).
InitScores ==
    /\ \E total \in {0, 2, 100},
          variance \in {<<0, 1>>, <<1, 1000>>, <<1, 40>>, <<2, 1>>},
          drops \in 0..MaxEvents, dups \in 0..MaxEvents,
          discs \in 0..MaxEvents, wobbles \in 0..MaxEvents,
          computed \in BOOLEAN :
         qs_result =
           VideoAnalysisResult(total, variance, drops, dups,
                               IF computed /\ total > 0
                                 THEN Rat(dups * 100, total) ELSE RatInt(0),
                               discs, wobbles)
    /\ qs_pc = "call"

\* lines 266-268
FpsQualityScore(r) ==
    LET fps_penalty ==
          RatAdd(RatMin(RatMul(r.fps_variance, RatInt(1000)), RatInt(50)),
                 RatInt(r.fps_drops * 2))
    IN  RatMax(RatInt(0), RatSub(RatInt(100), fps_penalty))

\* line 271
DuplicateQualityScoreUnclamped(r) ==
    RatSub(RatInt(100), RatMul(r.duplicate_percentage, RatInt(2)))
DuplicateQualityScore(r) ==
    RatMax(RatInt(0), RatSub(RatInt(100), RatMul(r.duplicate_percentage, RatInt(2))))

\* lines 274-276
MotionQualityScore(r) ==
    IF r.total_frames > 0
      THEN LET discontinuity_rate == Rat(r.motion_discontinuities * 100, r.total_frames)
           IN  RatMax(RatInt(0),
                      RatSub(RatInt(100), RatMul(discontinuity_rate, RatInt(10))))
      ELSE r.quality.motion_quality_score

\* lines 279-281
WobbleQualityScore(r) ==
    IF r.total_frames > 0
      THEN LET wobble_rate == Rat(r.wobble_frames * 100, r.total_frames)
           IN  RatMax(RatInt(0), RatSub(RatInt(100), RatMul(wobble_rate, RatInt(5))))
      ELSE r.quality.wobble_quality_score

\* lines 284-289
OverallQualityScoreEvenWeights(f, d, m, w) ==
    RatAdd(RatAdd(RatMul(f, <<1, 4>>), RatMul(d, <<1, 4>>)),
           RatAdd(RatMul(m, <<1, 5>>), RatMul(w, <<1, 4>>)))
OverallQualityScore(f, d, m, w) ==
    RatAdd(RatAdd(RatMul(f, <<1, 5>>), RatMul(d, <<3, 10>>)),
           RatAdd(RatMul(m, <<1, 4>>), RatMul(w, <<1, 4>>)))

\* lines 263-289
CalculateQualityScores(r) ==
    LET f == FpsQualityScore(r)
        d == DuplicateQualityScore(r)
        m == MotionQualityScore(r)
        w == WobbleQualityScore(r)
    IN  [r EXCEPT !.quality =
           [fps_quality_score |-> f,
            duplicate_quality_score |-> d,
            motion_quality_score |-> m,
            wobble_quality_score |-> w,
            overall_quality_score |-> OverallQualityScore(f, d, m, w)]]

CallCalculateQualityScores ==
    /\ qs_pc = "call"
    /\ qs_result' = CalculateQualityScores(qs_result)
    /\ qs_pc' = "done"
    /\ UNCHANGED nonScoresVars

NextScores == CallCalculateQualityScores

(***************************************************************************)
(* Claims about _calculate_quality_scores                                  *)
(***************************************************************************)
\* C21: after _calculate_quality_scores, whatever the variance and the
\* numbers of drops, duplicates, discontinuities and wobble frames, each of
\* the four component scores lies in [0, 100] and the overall score is
\* 0.2 * fps + 0.3 * duplicate + 0.25 * motion + 0.25 * wobble, hence also in
\* [0, 100].
C21_QualityScoresInRangeOverallIsConvex ==
    qs_pc = "done" =>
      LET q == qs_result.quality
      IN  /\ InPercent(q.fps_quality_score)
          /\ InPercent(q.duplicate_quality_score)
          /\ InPercent(q.motion_quality_score)
          /\ InPercent(q.wobble_quality_score)
          /\ q.overall_quality_score[1] * 20 =
               q.overall_quality_score[2] *
                 RatAdd(RatAdd(RatMul(q.fps_quality_score, RatInt(4)),
                               RatMul(q.duplicate_quality_score, RatInt(6))),
                        RatAdd(RatMul(q.motion_quality_score, RatInt(5)),
                               RatMul(q.wobble_quality_score, RatInt(5))))[1]
          /\ InPercent(q.overall_quality_score)

\* a result whose penalties all exceed 100 before clamping, and one in the
\* middle of the range: 2 declared frames with 3 duplicates, 3
\* discontinuities and 3 wobble frames, variance 2 and 3 drops
C21_Witness ==
    /\ qs_pc = "done"
    /\ qs_result.total_frames = 2
    /\ qs_result.duplicate_percentage = RatInt(150)
    /\ qs_result.motion_discontinuities = 3
    /\ qs_result.wobble_frames = 3
    /\ qs_result.fps_variance = <<2, 1>>
    /\ qs_result.fps_drops = 3
    /\ qs_result.quality.fps_quality_score = RatInt(44)
    /\ qs_result.quality.duplicate_quality_score = RatInt(0)
    /\ qs_result.quality.overall_quality_score = <<44, 5>>

PerfectResult(r) ==
    /\ r.fps_variance = RatInt(0)
    /\ r.fps_drops = 0
    /\ r.duplicate_frames = 0
    /\ r.motion_discontinuities = 0
    /\ r.wobble_frames = 0

\* C22: a perfect video (zero fps variance, no fps drops, no duplicate
\* frames, no motion discontinuities, no wobble frames) gets 100 for the
\* fps, duplicate, motion and wobble quality scores and an overall quality
\* score of 100.
C22_PerfectVideoScoresHundred ==
    (qs_pc = "done" /\ PerfectResult(qs_result)) =>
      LET q == qs_result.quality
      IN  /\ q.fps_quality_score = RatInt(100)
          /\ q.duplicate_quality_score = RatInt(100)
          /\ q.motion_quality_score = RatInt(100)
          /\ q.wobble_quality_score = RatInt(100)
          /\ q.overall_quality_score = RatInt(100)

\* the perfect 100-frame video of the test
C22_Witness ==
    /\ qs_pc = "done"
    /\ PerfectResult(qs_result)
    /\ qs_result.total_frames = 100
    /\ qs_result.quality.overall_quality_score = RatInt(100)

(***************************************************************************)
(* video_analyzer.py: _analyze_wobble_distortion, the grid of blocks       *)
(***************************************************************************)
MaxFieldSide == 17

\* line 1378
grid_size == 8

IdleWobble ==
    /\ flow_h = 0
    /\ flow_w = 0
    /\ block_i = 0
    /\ block_j = 0
    /\ block_variances = << >>
    /\ wpc = "idle"

\* The state at line 1404, a motion field of h x w pixels in hand: the
\* frames of a video have at least one row and one column
InitWobble ==
    /\ flow_h \in 1..MaxFieldSide
    /\ flow_w \in 1..MaxFieldSide
    /\ block_i = 0
    /\ block_j = 0
    /\ block_variances = << >>
    /\ wpc = "grid"

\* lines 1398-1399
grid_h == flow_h \div grid_size
grid_w == flow_w \div grid_size

\* lines 1405-1408: the half-open ranges of block (i, j)
BlockEnd(k, step, size) == IF k < grid_size - 1 THEN (k + 1) * step ELSE size
BlockRect(i, j) ==
    [y_start |-> i * grid_h,
     y_end |-> BlockEnd(i, grid_h, flow_h),
     x_start |-> j * grid_w,
     x_end |-> BlockEnd(j, grid_w, flow_w)]

\* the pixels of flow[y_start:y_end, x_start:x_end]
PixelsOf(b) == (b.y_start..(b.y_end - 1)) \X (b.x_start..(b.x_end - 1))

\* lines 1410-1420: np.var of an empty array is nan (numpy warns and
\* returns it), and so is the score built from it
BlockVariance(b) ==
    IF PixelsOf(b) = {} THEN "nan" ELSE "number"

\* one iteration of the inner loop (lines 1403-1420)
WobbleBlock ==
    /\ wpc = "grid"
    /\ block_i < grid_size
    /\ LET b == BlockRect(block_i, block_j)
       IN  block_variances' =
             Append(block_variances, [rect |-> b, block_variance |-> BlockVariance(b)])
    /\ IF block_j < grid_size - 1
         THEN block_j' = block_j + 1 /\ UNCHANGED block_i
         ELSE block_j' = 0 /\ block_i' = block_i + 1
    /\ UNCHANGED <<flow_h, flow_w, wpc>>
    /\ UNCHANGED nonWobbleVars

\* after the loops (lines 1422-1424): np.mean of the block scores
WobbleGridDone ==
    /\ wpc = "grid"
    /\ block_i = grid_size
    /\ wpc' = "done"
    /\ UNCHANGED <<flow_h, flow_w, block_i, block_j, block_variances>>
    /\ UNCHANGED nonWobbleVars

NextWobble == WobbleBlock \/ WobbleGridDone

(***************************************************************************)
(* Claims about the grid of blocks                                         *)
(***************************************************************************)
FieldPixels == (0..(flow_h - 1)) \X (0..(flow_w - 1))
BlocksHolding(p) ==
    {k \in 1..Len(block_variances) : p \in PixelsOf(block_variances[k].rect)}

\* every pixel of the field is in exactly one block, and no block reaches
\* outside the field
BlocksPartitionField ==
    wpc = "done" =>
      /\ Len(block_variances) = grid_size * grid_size
      /\ \A p \in FieldPixels : Cardinality(BlocksHolding(p)) = 1
      /\ \A k \in 1..Len(block_variances) :
           PixelsOf(block_variances[k].rect) \subseteq FieldPixels

\* C25: for every height and width of the motion field the 8 x 8 blocks
\* partition it: every pixel belongs to exactly one block, the edge blocks
\* absorb the remainder, and each of the 64 block scores is computed over at
\* least one pixel.
C25_BlocksPartitionFieldNoneEmpty ==
    wpc = "done" =>
      /\ BlocksPartitionField
      /\ \A k \in 1..Len(block_variances) :
           /\ PixelsOf(block_variances[k].rect) # {}
           /\ block_variances[k].block_variance # "nan"

\* a field 4 pixels high and 17 wide: grid_h is 0, the 56 blocks of the first
\* 7 rows of the grid are empty and score nan, the last row holds all pixels
C25_Witness ==
    /\ wpc = "done"
    /\ flow_h = 4
    /\ flow_w = 17
    /\ BlocksPartitionField
    /\ Cardinality({k \in 1..Len(block_variances) :
                      block_variances[k].block_variance = "nan"}) = 56
    /\ PixelsOf(block_variances[64].rect) = (0..3) \X (14..16)

(***************************************************************************)
(* The entry points that open a decoding handle:                           *)
(*   video_analyser/analyzer.py  VideoAnalyzer.analyze, _analyze_frames    *)
(*   video_analyzer.py           analyze_fps_dynamics,                     *)
(*                               analyze_frame_dynamics,                   *)
(*                               analyze_motion_quality                    *)
(***************************************************************************)
MaxCapFrames == 3

EntryPoints ==
    {"analyze", "analyze_fps_dynamics", "analyze_frame_dynamics",
     "analyze_motion_quality"}

\* analyze_motion_quality reads the stream four times (lines 1068-1096):
\* jitter, duplicates, continuity, wobble; the others read it once
PassesOf(entry) == IF entry = "analyze_motion_quality" THEN 4 ELSE 1

IdleEntry ==
    /\ entry_point = "none"
    /\ source_kind = "ok"
    /\ stream_pts = << >>
    /\ cap_fps = 0
    /\ cap_frame_count = 0
    /\ cap_state = "none"
    /\ cap_releases = 0
    /\ cap_pos = 0
    /\ epc = "idle"
    /\ pass_no = 0
    /\ pass_starts = << >>
    /\ an_frame_times = << >>
    /\ an_found = [duplicates |-> 0, discontinuities |-> 0, wobbles |-> 0]
    /\ ep_outcome = [kind |-> "none"]

\* An entry point is called on a file.  The stream delivers 0..MaxCapFrames
\* frames whose timestamps advance by 0, 33 or 100 ms; the container declares
\* a frame rate, which may be 0, and a frame count, which may be 0.
InitEntry ==
    /\ entry_point \in EntryPoints
    /\ source_kind \in {"ok", "missing", "unopenable"}
    /\ stream_pts \in {<< >>} \cup
                      {PtsOf(ds) : ds \in SeqsUpTo({0, 33, 100}, MaxCapFrames - 1)}
    /\ cap_fps \in {0, 30}
    /\ cap_frame_count \in {0, Len(stream_pts)}
    /\ source_kind # "ok" => (stream_pts = << >> /\ cap_fps = 0)
    /\ cap_state = "none"
    /\ cap_releases = 0
    /\ cap_pos = 0
    /\ epc = "call"
    /\ pass_no = 0
    /\ pass_starts = << >>
    /\ an_frame_times = << >>
    /\ an_found = [duplicates |-> 0, discontinuities |-> 0, wobbles |-> 0]
    /\ ep_outcome = [kind |-> "none"]

\* analyzer.py lines 125-131, video_analyzer.py lines 286-288, 685-687,
\* 1058-1060: the file is missing or cv2 cannot open it, and the call raises
\* before its try block
EntryOpenFails ==
    /\ epc = "call"
    /\ source_kind # "ok"
    /\ epc' = "raised"
    /\ ep_outcome' =
         [kind |-> "exception",
          error |-> IF entry_point = "analyze" /\ source_kind = "missing"
                      THEN "FileNotFoundError" ELSE "ValueError"]
    /\ UNCHANGED <<entry_point, source_kind, stream_pts, cap_fps, cap_frame_count,
                   cap_state, cap_releases, cap_pos, pass_no, pass_starts,
                   an_frame_times, an_found>>
    /\ UNCHANGED nonEntryVars

\* the capture opens and the try block is entered
EntryOpen ==
    /\ epc = "call"
    /\ source_kind = "ok"
    /\ cap_state' = "open"
    /\ cap_pos' = 0
    /\ epc' = "walk"
    /\ pass_no' = 1
    /\ pass_starts' = <<[pass |-> 1, pos |-> 0, cap |-> "open"]>>
    /\ UNCHANGED <<entry_point, source_kind, stream_pts, cap_fps, cap_frame_count,
                   cap_releases, an_frame_times, an_found, ep_outcome>>
    /\ UNCHANGED nonEntryVars

\* cap.read() or cap.grab() delivers a frame.  In _analyze_frames (analyzer.py
\* lines 170-209) the timestamp is recorded; a frame after the first may be
\* found a duplicate, and a frame after the second, when there is a previous
\* motion score and a previous flow, a discontinuity or a wobble frame: what
\* is found depends on the pixels.
EntryRead ==
    /\ epc = "walk"
    /\ cap_pos < Len(stream_pts)
    /\ cap_pos' = cap_pos + 1
    /\ IF entry_point = "analyze"
         THEN /\ an_frame_times' = Append(an_frame_times, stream_pts[cap_pos + 1])
              /\ \E dup \in {0} \cup (IF cap_pos >= 1 THEN {1} ELSE {}),
                    disc \in {0} \cup (IF cap_pos >= 2 THEN {1} ELSE {}),
                    wob \in {0} \cup (IF cap_pos >= 2 THEN {1} ELSE {}) :
                   an_found' = [duplicates |-> an_found.duplicates + dup,
                                discontinuities |-> an_found.discontinuities + disc,
                                wobbles |-> an_found.wobbles + wob]
         ELSE UNCHANGED <<an_frame_times, an_found>>
    /\ UNCHANGED <<entry_point, source_kind, stream_pts, cap_fps, cap_frame_count,
                   cap_state, cap_releases, epc, pass_no, pass_starts, ep_outcome>>
    /\ UNCHANGED nonEntryVars

\* cap.release() in the finally block (analyzer.py line 159,
\* video_analyzer.py lines 421, 764, 1114)
Release(n) == n + 1

\* something raises while a frame that was read is handled (a cv2.error on
\* the frame, the progress line of a pass); the finally block runs and the
\* exception leaves the call
EntryFailsInWalk ==
    /\ epc = "walk"
    /\ cap_pos >= 1
    /\ cap_state' = "released"
    /\ cap_releases' = Release(cap_releases)
    /\ epc' = "raised"
    /\ ep_outcome' = [kind |-> "exception", error |-> "error in the walk"]
    /\ UNCHANGED <<entry_point, source_kind, stream_pts, cap_fps, cap_frame_count,
                   cap_pos, pass_no, pass_starts, an_frame_times, an_found>>
    /\ UNCHANGED nonEntryVars

\* cap.set(cv2.CAP_PROP_POS_FRAMES, 0) (video_analyzer.py lines 1073, 1082,
\* 1091)
NotRewound(pos) == pos
Rewound(pos) == 0

\* analyze_motion_quality: a pass has read to the end of the stream, the
\* handle is rewound and the next pass begins
EntryNextPass ==
    /\ epc = "walk"
    /\ cap_pos = Len(stream_pts)
    /\ pass_no < PassesOf(entry_point)
    /\ cap_pos' = Rewound(cap_pos)
    /\ pass_no' = pass_no + 1
    /\ pass_starts' = Append(pass_starts,
                             [pass |-> pass_no + 1, pos |-> cap_pos', cap |-> cap_state])
    /\ UNCHANGED <<entry_point, source_kind, stream_pts, cap_fps, cap_frame_count,
                   cap_state, cap_releases, epc, an_frame_times, an_found,
                   ep_outcome>>
    /\ UNCHANGED nonEntryVars

\* analyzer.py lines 212-214: np.diff(frame_times), zeros (and anything not
\* positive) removed
FrameIntervals(times) ==
    SelectSeq([k \in 1..(Len(times) - 1) |-> times[k + 1] - times[k]],
              LAMBDA d : d > 0)

\* analyzer.py lines 212-227, the FPS dynamics of _analyze_frames on
\* intervals in ms: 1.0 / result.fps raises ZeroDivisionError when the
\* declared frame rate is 0.0.  A drop is an interval above
\* expected_interval / fps_drop_threshold, with the default threshold 0.8.
FpsDynamics(times, fps) ==
    LET frame_intervals == IF Len(times) > 1 THEN FrameIntervals(times) ELSE << >>
    IN  IF Len(frame_intervals) = 0
          THEN [raised |-> FALSE, fps_variance |-> RatInt(0), fps_drops |-> 0]
        ELSE IF fps = 0
          THEN [raised |-> TRUE, error |-> "ZeroDivisionError"]
        ELSE [raised |-> FALSE,
              fps_variance |->
                RatMul(Stats([k \in 1..Len(frame_intervals) |->
                                RatInt(frame_intervals[k])]).var,
                       <<1, 1000000>>),
              fps_drops |->
                Cardinality({k \in 1..Len(frame_intervals) :
                               frame_intervals[k] * fps * 4 > 5000})]

\* The call comes to its end: the last pass has read to the end of the
\* stream.  VideoAnalyzer.analyze finishes _analyze_frames (lines 211-235)
\* and computes the scores (line 154); the finally block releases the
\* handle whether the call returns or raises.
EntryFinish ==
    /\ epc = "walk"
    /\ cap_pos = Len(stream_pts)
    /\ pass_no = PassesOf(entry_point)
    /\ cap_state' = "released"
    /\ cap_releases' = Release(cap_releases)
    /\ IF entry_point = "analyze"
         THEN \E dyn \in {FpsDynamics(an_frame_times, cap_fps)} :
                IF dyn.raised
                  THEN /\ epc' = "raised"
                       /\ ep_outcome' = [kind |-> "exception", error |-> dyn.error]
                  ELSE /\ epc' = "returned"
                       /\ ep_outcome' =
                            [kind |-> "result",
                             result |->
                               CalculateQualityScores(
                                 VideoAnalysisResult(
                                   cap_frame_count, dyn.fps_variance, dyn.fps_drops,
                                   an_found.duplicates,
                                   IF cap_frame_count > 0
                                     THEN Rat(an_found.duplicates * 100, cap_frame_count)
                                     ELSE RatInt(0),
                                   an_found.discontinuities, an_found.wobbles))]
         ELSE /\ epc' = "returned"
              /\ ep_outcome' = [kind |-> "result"]
    /\ UNCHANGED <<entry_point, source_kind, stream_pts, cap_fps, cap_frame_count,
                   cap_pos, pass_no, pass_starts, an_frame_times, an_found>>
    /\ UNCHANGED nonEntryVars

NextEntry ==
    \/ EntryOpenFails
    \/ EntryOpen
    \/ EntryRead
    \/ EntryFailsInWalk
    \/ EntryNextPass
    \/ EntryFinish

(***************************************************************************)
(* Claims about the entry points                                           *)
(***************************************************************************)
CallOver == epc \in {"returned", "raised"}

\* C27: every decoding handle an entry point opens successfully is released
\* exactly once before the call returns or raises, on every exit path, a
\* failure in the middle of the frame walk included; analyze_motion_quality
\* rewinds the same handle to frame 0 before each of its pixel passes and
\* never releases it between passes.
C27_HandleReleasedExactlyOnce ==
    /\ cap_releases <= 1
    /\ (CallOver /\ source_kind = "ok") =>
         (cap_state = "released" /\ cap_releases = 1)
    /\ (CallOver /\ source_kind # "ok") =>
         (cap_state = "none" /\ cap_releases = 0)
    /\ epc = "walk" => (cap_state = "open" /\ cap_releases = 0)
    /\ \A k \in 1..Len(pass_starts) :
         /\ pass_starts[k].pass = k
         /\ pass_starts[k].pos = 0
         /\ pass_starts[k].cap = "open"
    /\ (epc = "returned" /\ entry_point = "analyze_motion_quality") =>
         Len(pass_starts) = 4

\* analyze_motion_quality fails in the middle of its third pass over a
\* 3-frame video: the handle was rewound twice and is released once
C27_Witness ==
    /\ entry_point = "analyze_motion_quality"
    /\ epc = "raised"
    /\ Len(stream_pts) = 3
    /\ Len(pass_starts) = 3
    /\ cap_pos = 2
    /\ cap_state = "released"
    /\ cap_releases = 1

\* C28: VideoAnalyzer.analyze never fails with a division by zero when the
\* container declares fps = 0: for every declared fps, 0 included, and every
\* sequence of frame timestamps, _analyze_frames completes, the FPS-drop
\* detection using a guarded expected interval or being skipped.
C28_AnalyzeNeverDividesByZero ==
    (entry_point = "analyze" /\ CallOver /\ source_kind = "ok") =>
      \/ ep_outcome.kind = "result"
      \/ ep_outcome.error # "ZeroDivisionError"

\* a container that declares fps 0 and delivers 2 frames 33 ms apart: every
\* frame is read, then 1.0 / result.fps raises; the handle is released
C28_Witness ==
    /\ entry_point = "analyze"
    /\ cap_fps = 0
    /\ stream_pts = <<0, 33>>
    /\ an_frame_times = <<0, 33>>
    /\ epc = "raised"
    /\ ep_outcome = [kind |-> "exception", error |-> "ZeroDivisionError"]
    /\ cap_releases = 1

(***************************************************************************)
(* The spike ratio of the jerk samples as numpy computes it:               *)
(*   video_analyzer.py  _analyze_motion_continuity, lines 1335-1340        *)
(* The samples are numpy scalars.  Under the promotion rules of numpy 2    *)
(* they stay float32 (24-bit significand); under those of numpy 1 the      *)
(* product 2 * m of line 1310 makes them float64 (53-bit significand).     *)
(* np.mean and np.std round after every operation, so that the comparison  *)
(* with the threshold is decided by the rounding when a sample lies        *)
(* exactly two standard deviations above the mean.                         *)
(***************************************************************************)
MaxSpikeMagnitudes == 7

\* ---- numpy floating-point values of the jerk statistics, kept exactly as
\* ---- the integer value * 2^64 (a multi-digit number of the operators
\* ---- above).  The values that occur are 0 or at least 2^-8, so that ----
\* ---- a significand of 24 or 53 bits leaves no bit below 2^-64 ----
BigIsZero(a) == BigGEq(Big(0), a)

\* a without its leading zero digits
BigTrim(a) ==
    LET nz == {k \in 1..Len(a) : a[k] # 0}
    IN  IF nz = {} THEN << >>
        ELSE SubSeq(a, 1, CHOOSE k \in nz : \A j \in nz : j <= k)

\* a - b for a >= b
BigSub(a, b) ==
    LET L == Max(Len(a), Len(b))
    IN  BigTrim(SubSeq(BigCarry([k \in 1..L |->
                                   BigDigit(a, k) + 9999 - BigDigit(b, k)
                                     + (IF k = 1 THEN 1 ELSE 0)], 0), 1, L))

\* the number of bits of a
RECURSIVE BigBits(_)
BigBits(a) ==
    IF BigGEq(a, Big(8192))
      THEN 13 + BigBits(BigDivSmall(a, 8192).q)
      ELSE LET v == BigToInt(a)
           IN  CHOOSE b \in 0..13 : v < 2 ^ b /\ (b > 0 => v >= 2 ^ (b - 1))

\* round-to-nearest-even of an exact value (x, plus a fraction below one
\* unit of x when sticky) to a significand of the given number of bits
RoundToBits(x, sticky, bits) ==
    CHOOSE r \in
      {IF vs[2] <= 0 THEN vs[1]
       ELSE CHOOSE y \in
              {BigMul(BigTrim(IF h[1].r = 1 /\ (h[2] \/ sticky \/ BigIsOdd(h[1].q))
                                THEN BigAdd(h[1].q, Big(1)) ELSE h[1].q),
                      BigTrim(BigPow2(vs[2]))) :
               h \in {<<BigDivSmall(sh.q, 2), sh.sticky>> :
                        sh \in {BigShiftRight(vs[1], vs[2] - 1)}}} : TRUE :
       vs \in {<<v, BigBits(v) - bits>> : v \in {BigTrim(x)}}} : TRUE

\* the greatest d = low + k * step, k in 0..15, with (8192 * root + d) * d
\* within rem
SqrtDigit(rem, root, low, step) ==
    LET Part(d) == BigMul(BigAdd(BigMul(root, Big(8192)), Big(d)), Big(d))
    IN  low + step * (CHOOSE k \in 0..15 :
                         /\ BigGEq(rem, Part(low + k * step))
                         /\ k < 15 => ~BigGEq(rem, Part(low + (k + 1) * step)))

\* the integer square root of n and its remainder, 12 bits of the root at a
\* time: from the root and remainder of n \div 2^24, the next 12 bits d are
\* the greatest with (2 * 4096 * root + d) * d within the remainder
RECURSIVE BigSqrt(_)
BigSqrt(n) ==
    IF ~BigGEq(n, Big(16777216))
      THEN LET v == BigToInt(n)
               r == CHOOSE k \in 0..4095 : k * k <= v /\ v < (k + 1) * (k + 1)
           IN  [root |-> Big(r), rem |-> Big(v - r * r)]
      ELSE CHOOSE res \in
             {[root |-> BigTrim(BigAdd(BigMul(w[1], Big(4096)), Big(w[3]))),
               rem |-> BigSub(w[2], BigMul(BigAdd(BigMul(w[1], Big(8192)),
                                                  Big(w[3])), Big(w[3])))] :
              w \in {<<u[1], u[2],
                       SqrtDigit(u[2], u[1],
                                 SqrtDigit(u[2], u[1],
                                           SqrtDigit(u[2], u[1], 0, 256), 16), 1)>> :
                u \in {<<l[3].root,
                         BigTrim(BigAdd(BigMul(l[3].rem, Big(16777216)),
                                        Big(l[2].r * 4096 + l[1].r)))>> :
                  l \in {<<d[1], d[2], BigSqrt(BigTrim(d[2].q))>> :
                    d \in {<<d1, BigDivSmall(d1.q, 4096)>> :
                      d1 \in {BigDivSmall(n, 4096)}}}}}} : TRUE

NpOfInt(n) == BigTrim(BigMul(Big(n), BigPow2(64)))
NpAdd(a, b, bits) ==
    CHOOSE r \in {RoundToBits(s, FALSE, bits) : s \in {BigAdd(a, b)}} : TRUE
\* |a - b|
NpAbsDiff(a, b, bits) ==
    CHOOSE r \in {RoundToBits(d, FALSE, bits) :
                  d \in {IF BigGEq(a, b) THEN BigSub(a, b) ELSE BigSub(b, a)}} : TRUE
NpSquare(a, bits) ==
    CHOOSE r \in {BigTrim(BigShiftRight(y, 64).q) :
                  y \in {RoundToBits(p, FALSE, bits) : p \in {BigMul(a, a)}}} : TRUE
\* a / n for a count n
NpDivCount(a, n, bits) ==
    CHOOSE r \in {BigTrim(BigShiftRight(y, 64).q) :
                  y \in {RoundToBits(dr.q, dr.r # 0, bits) :
                         dr \in {BigDivSmall(p, n) :
                                 p \in {BigMul(a, BigTrim(BigPow2(64)))}}}} : TRUE
NpSqrt(a, bits) ==
    CHOOSE r \in {RoundToBits(s.root, ~BigIsZero(s.rem), bits) :
                  s \in {BigSqrt(p) :
                         p \in {BigTrim(BigMul(a, BigTrim(BigPow2(64))))}}} : TRUE
NpGreater(a, b) == ~BigGEq(b, a)

\* np.add.reduce of fewer than 8 values: added one after the other
RECURSIVE NpSumTo(_, _, _)
NpSumTo(xs, k, bits) ==
    IF k = 0 THEN << >>
    ELSE CHOOSE r \in {NpAdd(s, xs[k], bits) : s \in {NpSumTo(xs, k - 1, bits)}} : TRUE
NpMean(xs, bits) ==
    CHOOSE r \in {NpDivCount(s, Len(xs), bits) : s \in {NpSumTo(xs, Len(xs), bits)}} :
        TRUE
\* the squared deviation (x - m) * (x - m)
NpSquaredDeviation(x, m, bits) ==
    CHOOSE r \in {NpSquare(d, bits) : d \in {NpAbsDiff(x, m, bits)}} : TRUE
\* np.std: the root of the mean of the squared deviations from the mean
NpStd(xs, bits) ==
    CHOOSE r \in
      {NpSqrt(v, bits) :
         v \in {NpMean(sq, bits) :
                  sq \in {[k \in 1..Len(xs) |-> NpSquaredDeviation(xs[k], m, bits)]
                            \o << >> :
                          m \in {NpMean(xs, bits)}}}} : TRUE

\* lines 1336-1339: the number of jerk samples above mean + 2 * std, for
\* integer samples, in arithmetic of the given significand
JerkPeaks(jerks, bits) ==
    CHOOSE c \in
      {Cardinality({k \in 1..Len(jerks) : NpGreater(at[1][k], at[2])}) :
         at \in {<<st[1], NpAdd(st[2], BigAdd(st[3], st[3]), bits)>> :
                   st \in {<<xs, NpMean(xs, bits), NpStd(xs, bits)>> :
                             xs \in {[k \in 1..Len(jerks) |-> NpOfInt(jerks[k])]
                                      \o << >>}}}} :
        TRUE

IdleSpike ==
    /\ sk_magnitudes = << >>
    /\ sk_bits = 24
    /\ sk_jerks = << >>
    /\ sk_peaks = "none"
    /\ sk_pc = "idle"

\* lines 1305-1311: the jerk samples of a sequence of mean magnitudes
JerkValues(m) == [t \in 1..(Len(m) - 2) |-> Jerk(SubSeq(m, 1, t + 2))]

\* The state at line 1335 with at least one jerk sample: the mean flow
\* magnitude of every pair is 0 (identical frames) or 21 pixels
InitSpike ==
    /\ \E P \in 3..MaxSpikeMagnitudes : sk_magnitudes \in [1..P -> {0, 21}]
    /\ sk_bits \in {24, 53}
    /\ sk_jerks = JerkValues(sk_magnitudes)
    /\ sk_peaks = "none"
    /\ sk_pc = "call"

\* lines 1336-1339: mean_jerk, threshold and the count of the samples above
\* the threshold
CountJerkPeaks ==
    /\ sk_pc = "call"
    /\ sk_peaks' = JerkPeaks(sk_jerks, sk_bits)
    /\ sk_pc' = "done"
    /\ UNCHANGED <<sk_magnitudes, sk_bits, sk_jerks>>
    /\ UNCHANGED nonSpikeVars

NextSpike == CountJerkPeaks

(***************************************************************************)
(* Claims about the spike ratio.                                           *)
(***************************************************************************)
\* C30: for every non-empty sequence of jerk samples the spike ratio
\* jerk_peaks / len(jerk_values) is below 1/5, and it is 0 when all samples
\* are equal; so that 50 * spike_ratio is below 10 points.
C30_SpikeRatioBelowOneFifth ==
    sk_pc = "done" =>
        /\ 5 * sk_peaks < Len(sk_jerks)
        /\ (\A k \in 1..Len(sk_jerks) : sk_jerks[k] = sk_jerks[1]) => sk_peaks = 0

\* one moving pair followed by identical frames: the first of five jerk
\* samples is counted as a spike, a ratio of exactly 1/5, whatever the
\* significand
C30_Witness ==
    /\ sk_pc = "done"
    /\ sk_magnitudes = <<21, 0, 0, 0, 0, 0, 0>>
    /\ sk_jerks = <<21, 0, 0, 0, 0>>
    /\ sk_peaks = 1
    /\ 50 * sk_peaks = 10 * Len(sk_jerks)

(***************************************************************************)
(* Specifications                                                          *)
(***************************************************************************)
Init ==
    InitBatch /\ IdleDup /\ IdlePair /\ IdleScore /\ IdlePass /\ IdleOutlier
      /\ IdleQuality /\ IdleMain /\ IdleScores /\ IdleWobble /\ IdleEntry
      /\ IdleSpike
Next == NextBatch
Spec == Init /\ [][Next]_vars

\* The main thread resumes whenever a future is done (as_completed), and the
\* worker threads keep running their tasks; a hung decode has no step to take.
FairInit == Init /\ Len(files) <= MaxFairFiles
FairSpec ==
    /\ FairInit /\ [][Next]_vars
    /\ WF_vars(Submit)
    /\ WF_vars(\E i \in Tasks : StartTask(i))
    /\ WF_vars(\E i \in Tasks : FinishTask(i))
    /\ WF_vars(\E i \in Tasks : FailTask(i))
    /\ WF_vars(\E i \in Tasks : Harvest(i))
    /\ WF_vars(Return)

DupInit ==
    InitDup /\ IdleBatch /\ IdlePair /\ IdleScore /\ IdlePass /\ IdleOutlier
      /\ IdleQuality /\ IdleMain /\ IdleScores /\ IdleWobble /\ IdleEntry
      /\ IdleSpike
SpecDup == DupInit /\ [][NextDup]_vars

PairInit ==
    InitPair /\ IdleBatch /\ IdleDup /\ IdleScore /\ IdlePass /\ IdleOutlier
      /\ IdleQuality /\ IdleMain /\ IdleScores /\ IdleWobble /\ IdleEntry
      /\ IdleSpike
SpecMotion == PairInit /\ [][NextPair]_vars

ScoreInit ==
    InitScore /\ IdleBatch /\ IdleDup /\ IdlePair /\ IdlePass /\ IdleOutlier
      /\ IdleQuality /\ IdleMain /\ IdleScores /\ IdleWobble /\ IdleEntry
      /\ IdleSpike
SpecScore == ScoreInit /\ [][NextScore]_vars

PassInit ==
    InitPass /\ IdleBatch /\ IdleDup /\ IdlePair /\ IdleScore /\ IdleOutlier
      /\ IdleQuality /\ IdleMain /\ IdleScores /\ IdleWobble /\ IdleEntry
      /\ IdleSpike
SpecPass == PassInit /\ [][NextPass]_vars
OutlierInit ==
    InitOutlier /\ IdleBatch /\ IdleDup /\ IdlePair /\ IdleScore /\ IdlePass
      /\ IdleQuality /\ IdleMain /\ IdleScores /\ IdleWobble /\ IdleEntry
      /\ IdleSpike
SpecOutlier == OutlierInit /\ [][NextOutlier]_vars

QualityInit ==
    InitQuality /\ IdleBatch /\ IdleDup /\ IdlePair /\ IdleScore /\ IdlePass
      /\ IdleOutlier /\ IdleMain /\ IdleScores /\ IdleWobble /\ IdleEntry
      /\ IdleSpike
SpecQuality == QualityInit /\ [][NextQuality]_vars

MainInit ==
    InitMain /\ IdleBatch /\ IdleDup /\ IdlePair /\ IdleScore /\ IdlePass
      /\ IdleOutlier /\ IdleQuality /\ IdleScores /\ IdleWobble /\ IdleEntry
      /\ IdleSpike
SpecMain == MainInit /\ [][NextMain]_vars

QualityScoresInit ==
    InitScores /\ IdleBatch /\ IdleDup /\ IdlePair /\ IdleScore /\ IdlePass
      /\ IdleOutlier /\ IdleQuality /\ IdleMain /\ IdleWobble /\ IdleEntry
      /\ IdleSpike
SpecQualityScores == QualityScoresInit /\ [][NextScores]_vars

ContinuityInit ==
    InitContinuity /\ IdleBatch /\ IdleDup /\ IdlePair /\ IdleScore
      /\ IdlePass /\ IdleOutlier /\ IdleMain /\ IdleScores /\ IdleWobble
      /\ IdleEntry /\ IdleSpike
SpecContinuity == ContinuityInit /\ [][NextContinuity]_vars

WobbleInit ==
    InitWobble /\ IdleBatch /\ IdleDup /\ IdlePair /\ IdleScore /\ IdlePass
      /\ IdleOutlier /\ IdleQuality /\ IdleMain /\ IdleScores /\ IdleEntry
      /\ IdleSpike
SpecWobble == WobbleInit /\ [][NextWobble]_vars

EntryInit ==
    InitEntry /\ IdleBatch /\ IdleDup /\ IdlePair /\ IdleScore /\ IdlePass
      /\ IdleOutlier /\ IdleQuality /\ IdleMain /\ IdleScores /\ IdleWobble
      /\ IdleSpike
SpecEntry == EntryInit /\ [][NextEntry]_vars

SpikeInit ==
    InitSpike /\ IdleBatch /\ IdleDup /\ IdlePair /\ IdleScore /\ IdlePass
      /\ IdleOutlier /\ IdleQuality /\ IdleMain /\ IdleScores /\ IdleWobble
      /\ IdleEntry
SpecSpike == SpikeInit /\ [][NextSpike]_vars

====
